---- MODULE Spec2Model ----
(***************************************************************************)
(* libtopology: discovery of the Linux CPU topology from sysfs.            *)
(*                                                                         *)
(* The model follows lib/topology.c (src/unnamed/part_008, lines 193 ff.), *)
(* lib/cpumask.c and lib/helper.c.                                          *)
(*                                                                         *)
(* Conventions                                                             *)
(*  - a C string is a sequence of one-character strings; a char* that may  *)
(*    be NULL, and a sysfs file that may be absent, is a record            *)
(*    [ok, s] (ok = FALSE: NULL pointer / open() failed);                  *)
(*  - a pointer to a struct topo_procent is its index in the arena `ents`  *)
(*    (allocation order), a pointer to a registered struct topo_device its *)
(*    index in `devs`; 0 is the NULL pointer;                              *)
(*  - a cpu_set_t of `size` bytes is the set of its set bit indices;       *)
(*  - the heap that the build works on is threaded through the operators   *)
(*    as a record G = [ctx, ents, devs].                                   *)
(***************************************************************************)
EXTENDS Integers, Sequences, FiniteSets, TLC

(***************************************************************************)
(* Bounds of the model                                                     *)
(***************************************************************************)
\* CPU directories cpu0 .. cpu{NumCpus-1} under devices/system/cpu
NumCpus == 3
\* CPU directories of the layouts that carry cache directories
NumCacheCpus == 2
\* node directories node0 .. node{n-1}, n <= NumNodes
NumNodes == 2
\* cache/index{k} names are drawn from k < MaxIndex
MaxIndex == 2
\* the kernel's cpumask is 1 .. MaxKernelWords words of 8 bytes wide
MaxKernelWords == 3
\* cpu ids of the probed layouts lie in the first MaxProbeWords 64-bit words
MaxProbeWords == 3
\* a parsed string is at most MaxHigh characters, a run of zeros or none,
\* and at most MaxLow characters
MaxHigh == 2
MaxLow == 2
\* the allocation calls of which one may be made to fail
MaxFailAt == 100

(***************************************************************************)
(* Program constants                                                       *)
(***************************************************************************)
TOPOLOGY_THREAD == 1
TOPOLOGY_CORE == 2
TOPOLOGY_PACKAGE == 3
TOPOLOGY_NODE == 4
TOPOLOGY_SYSTEM == 5
\* initial capacity of the device hash table (new_context)
DEVICE_HTABLE_INIT == 2
\* the smallest cpumask width in bytes the affinity syscall of the modelled
\* kernel accepts
KernelMaskBytes == 8

NULL == 0

(***************************************************************************)
(* Strings                                                                 *)
(***************************************************************************)
Str(s) == [ok |-> TRUE, s |-> s]
NULLSTR == [ok |-> FALSE, s |-> <<>>]
\* an absent file (open() fails with ENOENT)
NoFile == NULLSTR
File(s) == Str(s)

Digits == <<"0", "1", "2", "3", "4", "5", "6", "7", "8", "9">>

\* asprintf(&buf, "%d", n) for n >= 0
RECURSIVE DecStr(_)
DecStr(n) ==
    IF n < 10 THEN <<Digits[n + 1]>>
    ELSE DecStr(n \div 10) \o <<Digits[(n % 10) + 1]>>

DigitVal(ch) == CHOOSE v \in 0..9 : Digits[v + 1] = ch
IsDigit(ch) == \E v \in 0..9 : Digits[v + 1] = ch

\* the value of the longest decimal prefix of s (acc = value so far)
RECURSIVE DecPrefix(_, _)
DecPrefix(s, acc) ==
    IF s = <<>> \/ ~IsDigit(Head(s)) THEN acc
    ELSE DecPrefix(Tail(s), acc * 10 + DigitVal(Head(s)))

\* sscanf(buf, "%d", &v) on a string without leading blanks or sign:
\* n = number of conversions, v = the value converted
sscanf_d(s) ==
    IF s # <<>> /\ IsDigit(Head(s))
    THEN [n |-> 1, v |-> DecPrefix(s, 0)]
    ELSE [n |-> 0, v |-> 0]

\* buf_remove_newline: cut the string at its first newline
RECURSIVE buf_remove_newline(_)
buf_remove_newline(s) ==
    IF s = <<>> \/ Head(s) = "\n" THEN <<>>
    ELSE <<Head(s)>> \o buf_remove_newline(Tail(s))

(***************************************************************************)
(* cpumask.c                                                               *)
(***************************************************************************)
ascii_vals ==
    ("0" :> 0) @@ ("1" :> 1) @@ ("2" :> 2) @@ ("3" :> 3) @@ ("4" :> 4) @@
    ("5" :> 5) @@ ("6" :> 6) @@ ("7" :> 7) @@ ("8" :> 8) @@ ("9" :> 9) @@
    ("A" :> 10) @@ ("B" :> 11) @@ ("C" :> 12) @@ ("D" :> 13) @@
    ("E" :> 14) @@ ("F" :> 15) @@
    ("a" :> 10) @@ ("b" :> 11) @@ ("c" :> 12) @@ ("d" :> 13) @@
    ("e" :> 14) @@ ("f" :> 15)

isxdigit(ch) == ch \in DOMAIN ascii_vals
char_to_val(ch) == ascii_vals[ch]

\* glibc CPU_ALLOC_SIZE(nrbits): bytes of the unsigned longs holding nrbits
\* (unsigned long is 8 bytes, 64 bits)
CPU_ALLOC_SIZE(nrbits) == ((nrbits + 63) \div 64) * 8

\* CPU_ZERO_S: the `size` bytes of the mask are cleared
CPU_ZERO_S(size, mask) == {b \in mask : b \div 8 >= size}

\* CPU_SET_S / CPU_ISSET_S: a bit outside the `size` bytes is ignored
CPU_SET_S(cpu, size, mask) ==
    IF cpu >= 0 /\ cpu \div 8 < size THEN mask \cup {cpu} ELSE mask
CPU_ISSET_S(cpu, size, mask) ==
    cpu >= 0 /\ cpu \div 8 < size /\ cpu \in mask

\* bit i of val, 0 <= i < 4
NibbleBit(val, i) == (val \div (2 ^ i)) % 2 = 1

\* the four CPU_SET_S calls of one hex digit starting at bit `cpu`
SetNibble(val, cpu, size, mask) ==
    mask \cup {cpu + i : i \in {j \in 0..3 :
                  NibbleBit(val, j) /\ (cpu + j) \div 8 < size}}

\* index of the last hex digit of buf[1..pos], 0 if there is none
RECURSIVE LastHexDigit(_, _)
LastHexDigit(buf, pos) ==
    IF pos = 0 THEN 0
    ELSE IF isxdigit(buf[pos]) THEN pos
    ELSE LastHexDigit(buf, pos - 1)

\* faulty variant: the error path returns without clearing the mask
RECURSIVE ParseLoopKeepsBits(_, _, _, _, _)
ParseLoopKeepsBits(buf, pos, cpu, size, mask) ==
    IF pos = 0 THEN [rc |-> 0, mask |-> mask]
    ELSE IF buf[pos] = ","
    THEN ParseLoopKeepsBits(buf, pos - 1, cpu, size, mask)
    ELSE IF ~isxdigit(buf[pos]) THEN [rc |-> 1, mask |-> mask]
    ELSE ParseLoopKeepsBits(buf, pos - 1, cpu + 4, size,
                            SetNibble(char_to_val(buf[pos]), cpu, size, mask))

\* the loop "for ( ; pos >= buf; pos--)" of topology_cpumask_parse
RECURSIVE ParseLoop(_, _, _, _, _)
ParseLoop(buf, pos, cpu, size, mask) ==
    IF pos = 0 THEN [rc |-> 0, mask |-> mask]
    ELSE IF buf[pos] = "," THEN ParseLoop(buf, pos - 1, cpu, size, mask)
    ELSE IF ~isxdigit(buf[pos])
    THEN [rc |-> 1, mask |-> CPU_ZERO_S(size, mask)]
    ELSE ParseLoop(buf, pos - 1, cpu + 4, size,
                   SetNibble(char_to_val(buf[pos]), cpu, size, mask))

\* faulty variant: the scan starts at the last character, a trailing
\* newline is taken for part of the digits
cpumask_parse_no_suffix(cpumask, size, buf) ==
    IF LastHexDigit(buf, Len(buf)) = 0
    THEN [rc |-> 1, mask |-> CPU_ZERO_S(size, cpumask)]
    ELSE ParseLoop(buf, Len(buf), 0, size, CPU_ZERO_S(size, cpumask))

\* cpumask: the content of the target before the call.  The scan for the
\* last hex digit reads buf[-1] when buf holds no hex digit; whatever that
\* byte is, pos < buf follows and the call fails.
topology_cpumask_parse(cpumask, size, buf) ==
    LET last == LastHexDigit(buf, Len(buf))
        zeroed == CPU_ZERO_S(size, cpumask)
    IN  IF last = 0 THEN [rc |-> 1, mask |-> CPU_ZERO_S(size, zeroed)]
        ELSE ParseLoop(buf, last, 0, size, zeroed)

(***************************************************************************)
(* Memory                                                                  *)
(* An allocation is named by a tag: what it is and whose it is.            *)
(*   live   the allocations not freed yet                                  *)
(*   lost   allocations whose only pointer was overwritten or dropped      *)
(*   dfree  allocations freed when they were not live                      *)
(*   count  the allocation calls made so far, counted up to failat         *)
(*   failat the allocation call that returns NULL, 0: none does            *)
(*   fault  a NULL pointer or a zeroed hash table was dereferenced, or an  *)
(*          assert failed                                                  *)
(***************************************************************************)
\* a local variable: v is computed once and K goes on with it
Bind(v, K(_)) == K(v)

NoMem ==
    [live |-> {}, lost |-> {}, dfree |-> {}, count |-> 0, failat |-> 0,
     fault |-> FALSE]

\* calloc(1, size); strdup, asprintf, getline and hcreate_r allocate the
\* same way
zmalloc(G, tag) ==
    LET m == G.mem
        n == IF m.count < m.failat THEN m.count + 1 ELSE m.count
    IN  IF m.count < m.failat /\ n = m.failat
        THEN [ok |-> FALSE, G |-> [G EXCEPT !.mem.count = n]]
        ELSE [ok |-> TRUE,
              G |-> [G EXCEPT !.mem.count = n,
                              !.mem.live = @ \cup {tag},
                              !.mem.lost = IF tag \in m.live
                                           THEN @ \cup {tag} ELSE @]]

\* free() of a pointer that is not NULL
free(G, tag) ==
    IF tag \in G.mem.live THEN [G EXCEPT !.mem.live = @ \ {tag}]
    ELSE [G EXCEPT !.mem.dfree = @ \cup {tag}]

\* the only pointer to the allocation is overwritten
DropPointer(G, tag) ==
    [G EXCEPT !.mem.live = @ \ {tag}, !.mem.lost = @ \cup {tag}]

Fault(G) == [G EXCEPT !.mem.fault = TRUE]

(***************************************************************************)
(* Hashtable API (wrapper around hcreate_r / hsearch_r)                    *)
(* tbl is the set of <<key, data>> entries; hsearch_r(ENTER) of a key      *)
(* already present keeps the old entry.  name is the field of the context  *)
(* that holds the table.                                                   *)
(***************************************************************************)
\* asserted: an assert of htable_insert has failed
NoHtable == [count |-> 0, maxsize |-> 0, tbl |-> {}, asserted |-> FALSE]

\* memset, then hcreate_r, which allocates the table
htable_init(G, name, maxsize) ==
    LET a == zmalloc(G, <<"htable", name>>)
    IN  IF ~a.ok
        THEN [rc |-> 1, G |-> [a.G EXCEPT !.ctx[name] = NoHtable]]
        ELSE [rc |-> 0,
              G |-> [a.G EXCEPT !.ctx[name] =
                        [NoHtable EXCEPT !.maxsize = maxsize]]]

htable_full(htab) == htab.maxsize = htab.count

\* assert(htab->count < htab->maxsize), then hsearch_r(ENTER)
htable_insert(htab, key, data) ==
    [htab EXCEPT !.count = @ + 1,
                 !.tbl = IF \E e \in @ : e[1] = key THEN @
                         ELSE @ \cup {<<key, data>>},
                 !.asserted = @ \/ ~(htab.count < htab.maxsize)]

\* a failed assert aborts the process
AssertChecked(G, name) == IF G.ctx[name].asserted THEN Fault(G) ELSE G

htable_lookup(htab, key) ==
    IF \E e \in htab.tbl : e[1] = key
    THEN (CHOOSE e \in htab.tbl : e[1] = key)[2]
    ELSE NULL

\* a table with maxsize 0 is left alone
htable_release(G, name) ==
    IF G.ctx[name].maxsize = 0 THEN G
    ELSE [free(G, <<"htable", name>>) EXCEPT !.ctx[name] = NoHtable]

(***************************************************************************)
(* Processor entities (struct topo_procent)                                *)
(***************************************************************************)
level_valid(l) == l >= TOPOLOGY_THREAD /\ l <= TOPOLOGY_SYSTEM

NoCtx ==
    [cpu_set_t_size |-> 0, list |-> NULL, system |-> NULL,
     core_htable |-> NoHtable, package_htable |-> NoHtable,
     devices |-> NULL, device_htable |-> NoHtable]

NoHeap == [ctx |-> NoCtx, ents |-> <<>>, devs |-> <<>>, mem |-> NoMem]

\* faulty variant: the new entity gets the level of its parent
alloc_init_same_level(G, parent, id) ==
    LET level == IF parent # NULL THEN G.ents[parent].level
                 ELSE TOPOLOGY_SYSTEM
        ent == Len(G.ents) + 1
        a1 == zmalloc(G, <<"ent", ent>>)
        a2 == zmalloc(a1.G, <<"ent.cpumask", ent>>)
        rec == [level |-> level, id |-> id, hash_key |-> NULLSTR,
                parent |-> parent, children |-> NULL,
                sibling |-> IF parent # NULL THEN G.ents[parent].children
                            ELSE NULL,
                next |-> G.ctx.list, cpumask |-> {}]
        ents1 == Append(G.ents, rec)
        ents2 == IF parent # NULL
                 THEN [ents1 EXCEPT ![parent].children = ent]
                 ELSE ents1
    IN  IF ~a1.ok THEN [G |-> a1.G, ent |-> NULL]
        ELSE IF ~a2.ok THEN [G |-> free(a2.G, <<"ent", ent>>), ent |-> NULL]
        ELSE [G |-> [a2.G EXCEPT !.ents = ents2, !.ctx.list = ent],
              ent |-> ent]

\* faulty variant: the new entity is linked at the tail of the global list
\* and at the tail of its parent's list of children
alloc_init_at_tail(G, parent, id) ==
    LET level == IF parent # NULL THEN G.ents[parent].level - 1
                 ELSE TOPOLOGY_SYSTEM
        ent == Len(G.ents) + 1
        a1 == zmalloc(G, <<"ent", ent>>)
        a2 == zmalloc(a1.G, <<"ent.cpumask", ent>>)
        rec == [level |-> level, id |-> id, hash_key |-> NULLSTR,
                parent |-> parent, children |-> NULL, sibling |-> NULL,
                next |-> NULL, cpumask |-> {}]
        ents1 == [e \in 1..Len(G.ents) |->
                    [G.ents[e] EXCEPT
                       !.next = IF @ = NULL THEN ent ELSE @,
                       !.sibling = IF G.ents[e].parent = parent /\ @ = NULL
                                   THEN ent ELSE @,
                       !.children = IF e = parent /\ @ = NULL
                                    THEN ent ELSE @]]
    IN  IF ~a1.ok THEN [G |-> a1.G, ent |-> NULL]
        ELSE IF ~a2.ok THEN [G |-> free(a2.G, <<"ent", ent>>), ent |-> NULL]
        ELSE [G |-> [a2.G EXCEPT !.ents = Append(ents1, rec),
                                 !.ctx.list = IF @ = NULL THEN ent ELSE @],
              ent |-> ent]

\* the new entity is linked at the head of the global list and at the head
\* of its parent's list of children; NULL when an allocation fails
alloc_init_topo_procent(G, parent, id) ==
    LET level == IF parent # NULL THEN G.ents[parent].level - 1
                 ELSE TOPOLOGY_SYSTEM
        ent == Len(G.ents) + 1
        a1 == zmalloc(G, <<"ent", ent>>)
        a2 == zmalloc(a1.G, <<"ent.cpumask", ent>>)
        rec == [level |-> level, id |-> id, hash_key |-> NULLSTR,
                parent |-> parent, children |-> NULL,
                sibling |-> IF parent # NULL THEN G.ents[parent].children
                            ELSE NULL,
                next |-> G.ctx.list, cpumask |-> {}]
        ents1 == Append(G.ents, rec)
        ents2 == IF parent # NULL
                 THEN [ents1 EXCEPT ![parent].children = ent]
                 ELSE ents1
    IN  IF ~a1.ok THEN [G |-> a1.G, ent |-> NULL]
        ELSE IF ~a2.ok THEN [G |-> free(a2.G, <<"ent", ent>>), ent |-> NULL]
        ELSE [G |-> [a2.G EXCEPT !.ents = ents2, !.ctx.list = ent],
              ent |-> ent]

\* free(NULL) does nothing
topo_procent_release(G, ent) ==
    LET G1 == free(G, <<"ent.cpumask", ent>>)
        G2 == IF G.ents[ent].hash_key.ok
              THEN free(G1, <<"ent.hash_key", ent>>) ELSE G1
    IN  free(G2, <<"ent", ent>>)

\* faulty variant: the entity the call starts from (the thread) is skipped,
\* only the entities above it get the bit
RECURSIVE cpumask_set_above_only(_, _, _, _)
cpumask_set_above_only(ents, ent, bit, size) ==
    LET ents1 == IF ents[ent].level = TOPOLOGY_THREAD THEN ents
                 ELSE [ents EXCEPT ![ent].cpumask = CPU_SET_S(bit, size, @)]
    IN  IF ents[ent].parent # NULL
        THEN cpumask_set_above_only(ents1, ents[ent].parent, bit, size)
        ELSE ents1

\* faulty variant: the bit is set in ent and in its parent, not further up
cpumask_set_one_level(ents, ent, bit, size) ==
    LET ents1 == [ents EXCEPT ![ent].cpumask = CPU_SET_S(bit, size, @)]
    IN  IF ents[ent].parent # NULL
        THEN [ents1 EXCEPT ![ents[ent].parent].cpumask =
                               CPU_SET_S(bit, size, @)]
        ELSE ents1

\* set the bit in ent and in every entity of its parent chain
RECURSIVE topo_procent_cpumask_set(_, _, _, _)
topo_procent_cpumask_set(ents, ent, bit, size) ==
    LET ents1 == [ents EXCEPT ![ent].cpumask = CPU_SET_S(bit, size, @)]
    IN  IF ents[ent].parent # NULL
        THEN topo_procent_cpumask_set(ents1, ents[ent].parent, bit, size)
        ELSE ents1

topo_procent_copy_cpumask(ents, ent) == ents[ent].cpumask

(***************************************************************************)
(* Devices (struct topo_device) and their attributes                       *)
(* A device that is not registered yet is a record of its own; d, the slot *)
(* of the arena it will take when registered, names its allocations.       *)
(***************************************************************************)
\* name and value are allocations of the caller that the attribute takes
new_attr(G, d, name, value) ==
    LET a == zmalloc(G, <<"attr", d, name>>)
    IN  [G |-> a.G, ok |-> a.ok, attr |-> [name |-> name, value |-> value]]

attr_release(G, d, attr) ==
    free(free(free(G, <<"attr.name", d, attr.name>>),
              <<"attr.value", d, attr.name>>),
         <<"attr", d, attr.name>>)

\* allocate a device but don't add it to the global list
alloc_topo_device(G, type) ==
    LET d == Len(G.devs) + 1
        a1 == zmalloc(G, <<"dev", d>>)
        a2 == zmalloc(a1.G, <<"dev.cpumask", d>>)
        a3 == zmalloc(a2.G, <<"dev.type", d>>)
        dev == [type |-> type, hash_key |-> NULLSTR, cpumask |-> {},
                next |-> NULL, attrs |-> <<>>]
    IN  IF ~a1.ok THEN [G |-> a1.G, ok |-> FALSE, dev |-> dev]
        ELSE IF ~a2.ok
        THEN [G |-> free(a2.G, <<"dev", d>>), ok |-> FALSE, dev |-> dev]
        ELSE IF ~a3.ok
        THEN [G |-> free(free(a3.G, <<"dev.cpumask", d>>), <<"dev", d>>),
              ok |-> FALSE, dev |-> dev]
        ELSE [G |-> a3.G, ok |-> TRUE, dev |-> dev]

\* the loop over dev->attrs of topo_device_release
RECURSIVE ReleaseAttrs(_, _, _, _)
ReleaseAttrs(G, d, attrs, i) ==
    IF i > Len(attrs) THEN G
    ELSE ReleaseAttrs(attr_release(G, d, attrs[i]), d, attrs, i + 1)

\* faulty variant: the attributes are not released
topo_device_release_keeps_attrs(G, dev, d) ==
    LET G1 == free(free(G, <<"dev.type", d>>), <<"dev.cpumask", d>>)
        G2 == IF dev.hash_key.ok THEN free(G1, <<"dev.hash_key", d>>)
              ELSE G1
    IN  free(G2, <<"dev", d>>)

topo_device_release(G, dev, d) ==
    LET G1 == free(free(G, <<"dev.type", d>>), <<"dev.cpumask", d>>)
        G2 == IF dev.hash_key.ok THEN free(G1, <<"dev.hash_key", d>>)
              ELSE G1
    IN  free(ReleaseAttrs(G2, d, dev.attrs, 1), <<"dev", d>>)

topo_device_attach_attr(dev, attr) == [dev EXCEPT !.attrs = <<attr>> \o @]

\* index of the first attribute called name, 0 if there is none
RECURSIVE AttrIndex(_, _, _)
AttrIndex(attrs, name, i) ==
    IF i > Len(attrs) THEN 0
    ELSE IF attrs[i].name = name THEN i
    ELSE AttrIndex(attrs, name, i + 1)

topo_device_get_attr_value(dev, name) ==
    LET i == AttrIndex(dev.attrs, name, 1)
    IN  IF i = 0 THEN NULLSTR ELSE Str(dev.attrs[i].value)

topo_device_copy_cpumask(devs, dev) == devs[dev].cpumask

\* the device takes the next free slot of the arena and becomes the head of
\* the global device list
topo_device_register(G, dev) ==
    LET d == Len(G.devs) + 1
    IN  [G EXCEPT !.devs = Append(@, [dev EXCEPT !.next = G.ctx.devices]),
                  !.ctx.devices = d]

\* "re-hash every device": the loop over ctx->devices of hash_device
RECURSIVE RehashDevices(_, _, _)
RehashDevices(htab, devs, iter) ==
    IF iter = NULL THEN htab
    ELSE RehashDevices(htable_insert(htab, devs[iter].hash_key.s, iter),
                       devs, devs[iter].next)

\* faulty variant: the table is doubled but the registered devices are
\* not put into the new table
hash_device_without_rehash(G, dev, ptr) ==
    LET htab == G.ctx.device_htable
        newsize == htab.maxsize * 2
        i == htable_init(htable_release(G, "device_htable"),
                         "device_htable", newsize)
    IN  IF ~htable_full(htab)
        THEN [rc |-> 0,
              G |-> AssertChecked(
                        [G EXCEPT !.ctx.device_htable =
                             htable_insert(htab, dev.hash_key.s, ptr)],
                        "device_htable")]
        ELSE IF i.rc # 0 THEN [rc |-> 1, G |-> i.G]
        ELSE [rc |-> 0,
              G |-> AssertChecked(
                        [i.G EXCEPT !.ctx.device_htable =
                             htable_insert(@, dev.hash_key.s, ptr)],
                        "device_htable")]

\* dev is not in the global list yet; ptr is its address
hash_device(G, dev, ptr) ==
    LET htab == G.ctx.device_htable
        newsize == htab.maxsize * 2
        i == htable_init(htable_release(G, "device_htable"),
                         "device_htable", newsize)
        rehashed == RehashDevices(i.G.ctx.device_htable, G.devs,
                                  G.ctx.devices)
    IN  IF ~htable_full(htab)
        THEN [rc |-> 0,
              G |-> AssertChecked(
                        [G EXCEPT !.ctx.device_htable =
                             htable_insert(htab, dev.hash_key.s, ptr)],
                        "device_htable")]
        ELSE IF i.rc # 0 THEN [rc |-> 1, G |-> i.G]
        ELSE [rc |-> 0,
              G |-> AssertChecked(
                        [i.G EXCEPT !.ctx.device_htable =
                             htable_insert(rehashed, dev.hash_key.s, ptr)],
                        "device_htable")]

(***************************************************************************)
(* sysfs readers                                                           *)
(* The directory devices/system/cpu/cpu{id} is a record                    *)
(*   [online, core_siblings, thread_siblings : file,                       *)
(*    cache : function from the k of the cache/index{k} names to           *)
(*            [size, type, level, shared_cpu_map : file]]                  *)
(* (no cache directory = no index names).                                  *)
(***************************************************************************)
\* helper.c: the whole file in a buffer of the caller, NULL if the file
\* cannot be opened or an allocation fails.  The buffer of a page is
\* allocated before the file is opened and resized to the length read.
slurp_text_file(G, file) ==
    LET a1 == zmalloc(G, <<"buf">>)
        a2 == zmalloc(free(a1.G, <<"buf">>), <<"buf">>)
    IN  IF ~a1.ok THEN [G |-> a1.G, buf |-> NULLSTR]
        ELSE IF ~file.ok THEN [G |-> free(a1.G, <<"buf">>), buf |-> NULLSTR]
        ELSE IF ~a2.ok THEN [G |-> a2.G, buf |-> NULLSTR]
        ELSE [G |-> a2.G, buf |-> file]

\* faulty variant: online starts as 0, so a file without a number means
\* offline
sysfs_cpu_is_online_default_off(G, dir) ==
    Bind(slurp_text_file(G, dir.online), LAMBDA r :
    IF ~r.buf.ok THEN [G |-> r.G, rc |-> 1]
    ELSE Bind(sscanf_d(r.buf.s), LAMBDA conv :
         [G |-> free(r.G, <<"buf">>),
          rc |-> IF conv.n # 1 THEN 0 ELSE conv.v]))

\* "assume online on error"
sysfs_cpu_is_online(G, dir) ==
    Bind(slurp_text_file(G, dir.online), LAMBDA r :
    IF ~r.buf.ok THEN [G |-> r.G, rc |-> 1]
    ELSE Bind(sscanf_d(r.buf.s), LAMBDA conv :
         [G |-> free(r.G, <<"buf">>),
          rc |-> IF conv.n # 1 THEN 1 ELSE conv.v]))

\* readdir64 entries named index%d
sysfs_count_caches(dir) == Cardinality(DOMAIN dir.cache)

\* getline() of the attribute file and buf_remove_newline; opened: openat
\* was given a name.  getline allocates the line before it reads, and the
\* pointer to it is dropped when nothing could be read.
sysfs_get_attr_value(G, opened, file, tag) ==
    LET a == zmalloc(G, tag)
    IN  IF ~opened \/ ~file.ok THEN [G |-> G, value |-> NULLSTR]
        ELSE IF ~a.ok THEN [G |-> a.G, value |-> NULLSTR]
        ELSE IF file.s = <<>>
        THEN [G |-> DropPointer(a.G, tag), value |-> NULLSTR]
        ELSE [G |-> a.G, value |-> Str(buf_remove_newline(file.s))]

\* NULL is [ok |-> FALSE].  The test after strdup looks at name, so a
\* failed strdup goes on to openat with a NULL name, which fails.
sysfs_get_attr(G, d, indexdir, name) ==
    Bind(zmalloc(G, <<"attr.name", d, name>>), LAMBDA n :
    Bind(sysfs_get_attr_value(n.G, n.ok, indexdir[name],
                              <<"attr.value", d, name>>), LAMBDA v :
    IF ~v.value.ok
    THEN [G |-> IF n.ok THEN free(v.G, <<"attr.name", d, name>>) ELSE v.G,
          ok |-> FALSE, attr |-> [name |-> name, value |-> <<>>]]
    ELSE Bind(new_attr(v.G, d, name, v.value.s), LAMBDA a :
         IF ~a.ok
         THEN [G |-> free(free(a.G, <<"attr.name", d, name>>),
                          <<"attr.value", d, name>>),
               ok |-> FALSE, attr |-> [name |-> name, value |-> <<>>]]
         ELSE [G |-> a.G, ok |-> TRUE, attr |-> a.attr])))

\* faulty variant: NULL when the file cannot be read
sysfs_cpu_thread_siblings_no_fallback(G, dir, cpu_id) ==
    slurp_text_file(G, dir.thread_siblings)

\* the file, or the cpu id printed with asprintf
sysfs_cpu_thread_siblings(G, dir, cpu_id) ==
    Bind(slurp_text_file(G, dir.thread_siblings), LAMBDA r :
    IF r.buf.ok THEN r
    ELSE Bind(zmalloc(r.G, <<"buf">>), LAMBDA a :
         IF ~a.ok THEN [G |-> a.G, buf |-> NULLSTR]
         ELSE [G |-> a.G, buf |-> Str(DecStr(cpu_id))]))

\* faulty variant: the cpu id is printed when the file cannot be read,
\* whether or not thread_siblings exists
sysfs_cpu_core_siblings_prints_id(G, dir, cpu_id) ==
    Bind(slurp_text_file(G, dir.core_siblings), LAMBDA r :
    IF r.buf.ok THEN r
    ELSE Bind(zmalloc(r.G, <<"buf">>), LAMBDA a :
         IF ~a.ok THEN [G |-> a.G, buf |-> NULLSTR]
         ELSE [G |-> a.G, buf |-> Str(DecStr(cpu_id))]))

\* "assume one core per package": the file, or what
\* sysfs_cpu_thread_siblings gives
sysfs_cpu_core_siblings(G, dir, cpu_id) ==
    Bind(slurp_text_file(G, dir.core_siblings), LAMBDA r :
    IF r.buf.ok THEN r ELSE sysfs_cpu_thread_siblings(r.G, dir, cpu_id))

(***************************************************************************)
(* Cache discovery                                                         *)
(***************************************************************************)
\* attributes are attached as they are read; the first failure leaves the
\* device with the attributes attached so far
__get_cache_info(G, cache, d, size, dir, cpu, index) ==
    IF index \notin DOMAIN dir.cache
    THEN [rc |-> 1, G |-> G, dev |-> cache]
    ELSE
    Bind(sysfs_get_attr(G, d, dir.cache[index], "size"), LAMBDA a1 :
    IF ~a1.ok THEN [rc |-> 1, G |-> a1.G, dev |-> cache] ELSE
    Bind(topo_device_attach_attr(cache, a1.attr), LAMBDA c1 :
    Bind(sysfs_get_attr(a1.G, d, dir.cache[index], "type"), LAMBDA a2 :
    IF ~a2.ok THEN [rc |-> 1, G |-> a2.G, dev |-> c1] ELSE
    Bind(topo_device_attach_attr(c1, a2.attr), LAMBDA c2 :
    Bind(sysfs_get_attr(a2.G, d, dir.cache[index], "level"), LAMBDA a3 :
    IF ~a3.ok THEN [rc |-> 1, G |-> a3.G, dev |-> c2] ELSE
    Bind(topo_device_attach_attr(c2, a3.attr), LAMBDA c3 :
    Bind(sysfs_get_attr(a3.G, d, dir.cache[index], "shared_cpu_map"),
         LAMBDA a4 :
    IF ~a4.ok THEN [rc |-> 1, G |-> a4.G, dev |-> c3] ELSE
    Bind(topo_device_attach_attr(c3, a4.attr), LAMBDA c4 :
    Bind(topology_cpumask_parse(c4.cpumask, size, a4.attr.value),
         LAMBDA parsed :
    Bind([c4 EXCEPT !.cpumask = parsed.mask], LAMBDA c5 :
    IF parsed.rc # 0 THEN [rc |-> 1, G |-> a4.G, dev |-> c5]
    ELSE IF ~CPU_ISSET_S(cpu, size, c5.cpumask)
    THEN [rc |-> 1, G |-> a4.G, dev |-> c5]
    ELSE [rc |-> 0, G |-> a4.G, dev |-> c5]))))))))))

\* asprintf(&cache->hash_key, "cache-L%s-%s-%s", level, type, cpumask)
cache_build_hash(G, cache, d) ==
    LET level == topo_device_get_attr_value(cache, "level")
        type == topo_device_get_attr_value(cache, "type")
        cpumask == topo_device_get_attr_value(cache, "shared_cpu_map")
        a == zmalloc(G, <<"dev.hash_key", d>>)
    IN  IF ~level.ok \/ ~type.ok \/ ~cpumask.ok
        THEN [rc |-> 1, G |-> G, dev |-> cache]
        ELSE IF ~a.ok THEN [rc |-> 1, G |-> a.G, dev |-> cache]
        ELSE [rc |-> 0, G |-> a.G,
              dev |-> [cache EXCEPT !.hash_key =
                          Str(<<"cache-L">> \o level.s \o <<"-">> \o type.s
                              \o <<"-">> \o cpumask.s)]]

\* faulty variant: the device table is not consulted
cache_never_seen(ctx, cache) == FALSE

\* "If we've seen this cache already, release it"
cache_seen(ctx, cache) ==
    htable_lookup(ctx.device_htable, cache.hash_key.s) # NULL

\* the loop "for (index = 0; index < nr_caches; index++)".  The err label
\* releases cache also when alloc_topo_device returned NULL, and hsearch_r
\* divides by the size of a table that hcreate_r did not set up.
RECURSIVE CacheLoop(_, _, _, _, _)
CacheLoop(G, dir, cpu, index, nr_caches) ==
    IF index >= nr_caches THEN [G |-> G, rc |-> 0]
    ELSE
    Bind(Len(G.devs) + 1, LAMBDA d :
    Bind(alloc_topo_device(G, "cache"), LAMBDA a :
    IF ~a.ok THEN [G |-> Fault(a.G), rc |-> 1] ELSE
    Bind(__get_cache_info(a.G, a.dev, d, G.ctx.cpu_set_t_size, dir, cpu,
                          index), LAMBDA info :
    IF info.rc # 0
    THEN [G |-> topo_device_release(info.G, info.dev, d), rc |-> 1] ELSE
    Bind(cache_build_hash(info.G, info.dev, d), LAMBDA hashed :
    IF hashed.rc # 0
    THEN [G |-> topo_device_release(hashed.G, hashed.dev, d), rc |-> 1]
    ELSE IF hashed.G.ctx.device_htable.maxsize = 0
    THEN [G |-> Fault(hashed.G), rc |-> 1]
    ELSE IF cache_seen(hashed.G.ctx, hashed.dev)
    THEN CacheLoop(topo_device_release(hashed.G, hashed.dev, d), dir, cpu,
                   index + 1, nr_caches)
    ELSE
    Bind(hash_device(hashed.G, hashed.dev, d), LAMBDA h :
    IF h.rc # 0
    THEN [G |-> topo_device_release(h.G, hashed.dev, d), rc |-> 1]
    ELSE CacheLoop(topo_device_register(h.G, hashed.dev), dir, cpu,
                   index + 1, nr_caches))))))

get_cache_info(G, thread, dir) ==
    LET nr_caches == sysfs_count_caches(dir)
    IN  IF nr_caches = 0 THEN [G |-> G, rc |-> 0]
        ELSE CacheLoop(G, dir, G.ents[thread].id, 0, nr_caches)

(***************************************************************************)
(* Building the entity graph                                               *)
(***************************************************************************)
\* the package of the cpu: looked up by its core_siblings string, created
\* under node when the string is new; NULL when an allocation fails
FindPackage(G, node, cpu_id, siblings) ==
    Bind(htable_lookup(G.ctx.package_htable, siblings), LAMBDA pkg :
    IF pkg # NULL THEN [G |-> G, ent |-> pkg] ELSE
    Bind(alloc_init_topo_procent(G, node, cpu_id), LAMBDA a :
    IF a.ent = NULL THEN [G |-> a.G, ent |-> NULL] ELSE
    Bind(zmalloc(a.G, <<"ent.hash_key", a.ent>>), LAMBDA k :
    IF ~k.ok THEN [G |-> k.G, ent |-> NULL]
    ELSE [G |-> AssertChecked(
                  [k.G EXCEPT
                     !.ents[a.ent].hash_key = Str(siblings),
                     !.ctx.package_htable =
                         htable_insert(@, siblings, a.ent)],
                  "package_htable"),
          ent |-> a.ent])))

\* the core of the cpu: looked up by its thread_siblings string, created
\* under pkg when the string is new; NULL when an allocation fails
FindCore(G, pkg, cpu_id, siblings) ==
    Bind(htable_lookup(G.ctx.core_htable, siblings), LAMBDA core :
    IF core # NULL THEN [G |-> G, ent |-> core] ELSE
    Bind(alloc_init_topo_procent(G, pkg, cpu_id), LAMBDA a :
    IF a.ent = NULL THEN [G |-> a.G, ent |-> NULL] ELSE
    Bind(zmalloc(a.G, <<"ent.hash_key", a.ent>>), LAMBDA k :
    IF ~k.ok THEN [G |-> k.G, ent |-> NULL]
    ELSE [G |-> AssertChecked(
                  [k.G EXCEPT
                     !.ents[a.ent].hash_key = Str(siblings),
                     !.ctx.core_htable = htable_insert(@, siblings, a.ent)],
                  "core_htable"),
          ent |-> a.ent])))

\* the result of get_cache_info is ignored ("best-effort"); the err label
\* frees siblings
do_one_cpu(G, node, cpu_id, dir) ==
    Bind(sysfs_cpu_core_siblings(G, dir, cpu_id), LAMBDA s1 :
    IF ~s1.buf.ok THEN [G |-> s1.G, rc |-> 1] ELSE
    Bind(FindPackage(s1.G, node, cpu_id, s1.buf.s), LAMBDA p :
    IF p.ent = NULL THEN [G |-> free(p.G, <<"buf">>), rc |-> 1] ELSE
    Bind(sysfs_cpu_thread_siblings(free(p.G, <<"buf">>), dir, cpu_id),
         LAMBDA s2 :
    IF ~s2.buf.ok THEN [G |-> s2.G, rc |-> 1] ELSE
    Bind(FindCore(s2.G, p.ent, cpu_id, s2.buf.s), LAMBDA c :
    IF c.ent = NULL THEN [G |-> free(c.G, <<"buf">>), rc |-> 1] ELSE
    Bind(alloc_init_topo_procent(free(c.G, <<"buf">>), c.ent, cpu_id),
         LAMBDA t :
    IF t.ent = NULL THEN [G |-> t.G, rc |-> 1] ELSE
    Bind([t.G EXCEPT !.ents = topo_procent_cpumask_set(
                         @, t.ent, cpu_id, t.G.ctx.cpu_set_t_size)],
         LAMBDA G3 :
    [G |-> get_cache_info(G3, t.ent, dir).G, rc |-> 0]))))))

(***************************************************************************)
(* Probing the cpumask size                                                *)
(***************************************************************************)
\* sched_getaffinity(pid, size, cpus) fails with EINVAL when size is
\* smaller than the kernel's cpumask of kmask bytes or is not a multiple of
\* sizeof(unsigned long)
sched_getaffinity(kmask, size) ==
    IF size >= kmask /\ size % 8 = 0 THEN 0 ELSE -1

\* faulty variant: the size is doubled once more after the call succeeded
RECURSIVE SchedProbeLoopOnceMore(_, _, _)
SchedProbeLoopOnceMore(G, size, kmask) ==
    LET a == zmalloc(G, <<"cpus">>)
    IN  IF ~a.ok THEN [G |-> a.G, size |-> 0]
        ELSE IF sched_getaffinity(kmask, size) = 0
        THEN [G |-> free(a.G, <<"cpus">>), size |-> size * 2]
        ELSE SchedProbeLoopOnceMore(free(a.G, <<"cpus">>), size * 2, kmask)

\* the loop "while (rc)" of sched_probe_cpumask_size, each turn with the
\* zmalloc before it and its free; 0 when the zmalloc fails
RECURSIVE SchedProbeLoop(_, _, _)
SchedProbeLoop(G, size, kmask) ==
    LET a == zmalloc(G, <<"cpus">>)
    IN  IF ~a.ok THEN [G |-> a.G, size |-> 0]
        ELSE IF sched_getaffinity(kmask, size) = 0
        THEN [G |-> free(a.G, <<"cpus">>), size |-> size]
        ELSE SchedProbeLoop(free(a.G, <<"cpus">>), size * 2, kmask)

sched_probe_cpumask_size(G, kmask) ==
    SchedProbeLoop(G, CPU_ALLOC_SIZE(1), kmask)

SetMax(S) == CHOOSE m \in S : \A x \in S : x <= m

\* cpus: the ids of the cpu%d entries of devices/system/cpu
sysfs_probe_cpumask_size(cpudir, cpus) ==
    IF ~cpudir THEN 0
    ELSE CPU_ALLOC_SIZE(SetMax(cpus \cup {0}) + 1)

\* faulty variant: the larger size is taken whether or not the override
\* is set
probe_ignores_override(G, cpudir, cpus, override, kmask) ==
    LET sched == sched_probe_cpumask_size(G, kmask)
        sysfs_size == sysfs_probe_cpumask_size(cpudir, cpus)
    IN  [G |-> sched.G,
         size |-> IF sched.size = 0 THEN 0
                  ELSE IF sysfs_size > sched.size THEN sysfs_size
                  ELSE sched.size]

\* override: LIBTOPOLOGY_CPUMASK_OVERRIDE is set; kmask: the width of the
\* kernel's cpumask in bytes; 0 is the error return.
\* sizeof(cpu_set_t) is 128, CPU_SETSIZE is 1024.
probe_cpumask_size(G, cpudir, cpus, override, kmask) ==
    LET sched == sched_probe_cpumask_size(G, kmask)
        sysfs_size == sysfs_probe_cpumask_size(cpudir, cpus)
    IN  IF CPU_ALLOC_SIZE(1024 + 1) = 128 THEN [G |-> G, size |-> 128]
        ELSE [G |-> sched.G,
              size |-> IF sched.size = 0 THEN 0
                       ELSE IF sysfs_size > sched.size
                       THEN (IF ~override THEN 0 ELSE sysfs_size)
                       ELSE sched.size]

(***************************************************************************)
(* Queries                                                                 *)
(***************************************************************************)
\* faulty variant: only the direct parent is compared
is_descendant_direct(ents, from, ent) ==
    ents[ent].parent = from

\* is ent a descendant of from?
RECURSIVE is_descendant(_, _, _)
is_descendant(ents, from, ent) ==
    IF ents[ent].parent = NULL THEN FALSE
    ELSE IF ents[ent].parent = from THEN TRUE
    ELSE is_descendant(ents, from, ents[ent].parent)

\* the loop "while (ent)" of next_at_level
RECURSIVE NextAtLevelLoop(_, _, _, _)
NextAtLevelLoop(ents, parent, ent, to) ==
    IF ent = NULL THEN NULL
    ELSE IF ents[ent].level = to /\ is_descendant(ents, parent, ent) THEN ent
    ELSE NextAtLevelLoop(ents, parent, ents[ent].next, to)

next_at_level(ents, list, parent, iter, to) ==
    NextAtLevelLoop(ents, parent,
                    IF iter = NULL THEN list ELSE ents[iter].next, to)

\* faulty variant: an ancestor more than one level up is not searched for,
\* the parent is returned
traverse_parent_only(ents, list, from, iter, to) ==
    IF ~level_valid(to) THEN NULL
    ELSE IF from = NULL THEN NULL
    ELSE IF to = ents[from].level THEN NULL
    ELSE IF to = ents[from].level + 1 THEN ents[from].parent
    ELSE IF to = ents[from].level - 1
    THEN (IF iter # NULL THEN ents[iter].sibling ELSE ents[from].children)
    ELSE IF to > ents[from].level THEN ents[from].parent
    ELSE next_at_level(ents, list, from, iter, to)

RECURSIVE traverse(_, _, _, _, _)
traverse(ents, list, from, iter, to) ==
    IF ~level_valid(to) THEN NULL
    ELSE IF from = NULL THEN NULL
    ELSE IF to = ents[from].level THEN NULL
    ELSE IF to = ents[from].level + 1 THEN ents[from].parent
    ELSE IF to = ents[from].level - 1
    THEN (IF iter # NULL THEN ents[iter].sibling ELSE ents[from].children)
    ELSE IF to > ents[from].level
    THEN traverse(ents, list, ents[from].parent, NULL, to)
    ELSE next_at_level(ents, list, from, iter, to)

\* the loop "for ( ; dev; dev = dev->next)" of find_device_by_type
RECURSIVE FindDeviceLoop(_, _, _)
FindDeviceLoop(devs, dev, type) ==
    IF dev = NULL THEN NULL
    ELSE IF devs[dev].type = type THEN dev
    ELSE FindDeviceLoop(devs, devs[dev].next, type)

find_device_by_type(devs, devices, prev, type) ==
    FindDeviceLoop(devs, IF prev = NULL THEN devices ELSE devs[prev].next,
                   type)

(***************************************************************************)
(* The sysfs tree                                                          *)
(*                                                                         *)
(* layout is the part of the tree that is fixed from the start:            *)
(*   family   which directory contents the cpu directories are drawn from  *)
(*   numa     number of devices/system/node/node{N} directories, -1 when   *)
(*            devices/system/node does not exist                           *)
(*   cpudir   devices/system/cpu exists                                    *)
(*   override LIBTOPOLOGY_CPUMASK_OVERRIDE is set                          *)
(*   kmask    width in bytes of the kernel's cpumask                       *)
(*   ids      the cpu ids of a probed layout                               *)
(*   failat   the allocation call that fails, 0 when none does             *)
(*   tpc, cpp threads per core and cores per package of a regular machine  *)
(* sysfs is stable during the scan and every cpu directory is read by the  *)
(* one do_node_cpus iteration of its cpu, so the content of a cpu          *)
(* directory is drawn when that iteration runs and recorded in cpufs.      *)
(***************************************************************************)
Families ==
    {"topology", "cache", "regular", "probe", "alloc", "concurrent"}

Cpus(l) ==
    IF ~l.cpudir THEN {}
    ELSE IF l.family = "probe" THEN l.ids
    ELSE IF l.family \in {"cache", "alloc", "concurrent"}
    THEN 0..(NumCacheCpus - 1)
    ELSE 0..(NumCpus - 1)

\* the node whose directory lists cpu c: whole packages of a regular
\* machine are dealt round-robin to the nodes, single cpus otherwise
NodeOf(l, c) ==
    IF l.family \in {"regular", "concurrent"}
    THEN (c \div (l.tpc * l.cpp)) % l.numa
    ELSE c % l.numa

\* faulty variant: only a node directory is read, devices/system/cpu is
\* not used for node 0 of a tree without node directories
NodeCpusOfNodeDir(l, nid) ==
    IF l.numa = -1 THEN {}
    ELSE {c \in Cpus(l) : NodeOf(l, c) = nid}

\* the cpu%d entries of the directory do_node_cpus reads for node nid
NodeCpus(l, nid) ==
    IF l.numa = -1 THEN Cpus(l)
    ELSE {c \in Cpus(l) : NodeOf(l, c) = nid}

\* the cpu ids a probed layout draws from: the first and the last bit of
\* each 64-bit word
ProbeIds ==
    {0} \cup {64 * k - 1 : k \in 1..MaxProbeWords}
        \cup {64 * k : k \in 1..(MaxProbeWords - 1)}

\* probed layouts: one node directory or none, at most two cpu
\* directories, any
\* kernel cpumask width, the override set or not
ProbeLayouts ==
    {[family |-> "probe", numa |-> n, cpudir |-> d, override |-> o,
      tpc |-> 0, cpp |-> 0, kmask |-> 8 * w, ids |-> I, failat |-> 0] :
        n \in {-1, 1}, d \in BOOLEAN, o \in BOOLEAN, w \in 1..MaxKernelWords,
        I \in {J \in SUBSET ProbeIds : Cardinality(J) <= 2}}

\* layouts of the builds in which an allocation fails: one node directory
\* or none, any allocation call failing or none
AllocLayouts ==
    {[family |-> "alloc", numa |-> n, cpudir |-> TRUE, override |-> FALSE,
      tpc |-> 0, cpp |-> 0, kmask |-> KernelMaskBytes, ids |-> {},
      failat |-> f] : n \in {-1, 1}, f \in 0..MaxFailAt}

\* the machines the concurrent callers query: regular, one node directory
\* or none, one or two threads per core
ConcurrentLayouts ==
    {[family |-> "concurrent", numa |-> n, cpudir |-> TRUE,
      override |-> FALSE, tpc |-> t, cpp |-> 1, kmask |-> KernelMaskBytes,
      ids |-> {}, failat |-> 0] : n \in {-1, 1}, t \in {1, 2}}

Layouts(family) ==
    LET shapes == IF family = "regular" THEN {1, 2} ELSE {0}
    IN  IF family = "probe" THEN ProbeLayouts
        ELSE IF family = "alloc" THEN AllocLayouts
        ELSE IF family = "concurrent" THEN ConcurrentLayouts
        ELSE
        {[family |-> family, numa |-> n, cpudir |-> TRUE, override |-> FALSE,
          tpc |-> t, cpp |-> p, kmask |-> KernelMaskBytes, ids |-> {},
          failat |-> 0] :
            n \in {-1} \cup (1..NumNodes), t \in shapes, p \in shapes}
        \cup
        {[family |-> family, numa |-> -1, cpudir |-> FALSE,
          override |-> FALSE, tpc |-> t, cpp |-> t,
          kmask |-> KernelMaskBytes, ids |-> {}, failat |-> 0] :
            t \in shapes}

HexDigits == <<"0", "1", "2", "3", "4", "5", "6", "7", "8", "9",
               "a", "b", "c", "d", "e", "f">>

RECURSIVE MaskValue(_)
MaskValue(S) ==
    IF S = {} THEN 0
    ELSE LET b == CHOOSE x \in S : TRUE IN 2 ^ b + MaskValue(S \ {b})

\* the kernel's text of a cpumask of cpus below 4, with its newline
KernelMask(S) == <<HexDigits[MaskValue(S) + 1], "\n">>

NoCache == <<>>

\* the files of an index{k} directory; level and type follow k
IndexDir(k, map) ==
    [size |-> File(<<"1", "6", "K", "\n">>),
     type |-> File(IF k = 0 THEN <<"D", "a", "t", "a", "\n">>
                   ELSE <<"U", "n", "i", "f", "i", "e", "d", "\n">>),
     level |-> File(DecStr(k + 1) \o <<"\n">>),
     shared_cpu_map |-> map]

SharedCpuMaps ==
    {NoFile, File(<<"1", "\n">>), File(<<"2", "\n">>), File(<<"3", "\n">>),
     File(<<"z", "\n">>)}

CacheDirs ==
    UNION {{f \in [I -> {IndexDir(k, m) : k \in I, m \in SharedCpuMaps}] :
              \A k \in I : \E m \in SharedCpuMaps : f[k] = IndexDir(k, m)} :
           I \in SUBSET (0..(MaxIndex - 1))}

\* the files of an offline cpu other than `online` are never opened
OfflineDir ==
    [online |-> File(<<"0", "\n">>), core_siblings |-> NoFile,
     thread_siblings |-> NoFile, cache |-> NoCache]

TopologyDirs ==
    {OfflineDir} \cup
    {[online |-> o, core_siblings |-> cs, thread_siblings |-> ts,
      cache |-> NoCache] :
        o \in {NoFile},
        cs \in {NoFile, File(<<"3", "\n">>), File(<<"c", "\n">>)},
        ts \in {NoFile, File(<<"1", "\n">>), File(<<"3", "\n">>)}}

CacheFamilyDirs ==
    {OfflineDir} \cup
    {[online |-> NoFile, core_siblings |-> NoFile,
      thread_siblings |-> NoFile, cache |-> cd] : cd \in CacheDirs}

\* cpu c of a regular machine when it is online: cores of tpc threads,
\* packages of cpp cores, an L1 cache per core and an L2 cache per package
RegularDir(l, c) ==
    LET core == {x \in Cpus(l) : x \div l.tpc = c \div l.tpc}
        pkg == {x \in Cpus(l) :
                  x \div (l.tpc * l.cpp) = c \div (l.tpc * l.cpp)}
    IN  [online |-> File(<<"1", "\n">>),
         core_siblings |-> File(KernelMask(pkg)),
         thread_siblings |-> File(KernelMask(core)),
         cache |-> (0 :> IndexDir(0, File(KernelMask(core)))) @@
                   (1 :> IndexDir(1, File(KernelMask(pkg))))]

\* an online cpu without topology files and caches
PlainDir ==
    [online |-> NoFile, core_siblings |-> NoFile,
     thread_siblings |-> NoFile, cache |-> NoCache]

\* cpu c with its caches: none, one shared by the cpus below 2, its own
\* and the shared one, the shared one and one whose shared_cpu_map is
\* empty, one without shared_cpu_map
AllocDirs(c) ==
    {OfflineDir} \cup
    {[PlainDir EXCEPT !.cache = cd] :
        cd \in {NoCache,
                (0 :> IndexDir(0, File(<<"3", "\n">>))),
                (0 :> IndexDir(0, File(KernelMask({c})))) @@
                (1 :> IndexDir(1, File(<<"3", "\n">>))),
                (0 :> IndexDir(0, File(<<"3", "\n">>))) @@
                (1 :> IndexDir(1, File(<<>>))),
                (0 :> IndexDir(0, NoFile))}}

\* cpus that differ in their online file only: "0", none, "1", a text
\* that is no number, and "00"
ProbeDirs ==
    {OfflineDir, PlainDir,
     [PlainDir EXCEPT !.online = File(<<"1", "\n">>)],
     [PlainDir EXCEPT !.online = File(<<"x", "\n">>)],
     [PlainDir EXCEPT !.online = File(<<"0", "0", "\n">>)]}

DirChoices(l, c) ==
    IF l.family = "topology" THEN TopologyDirs
    ELSE IF l.family = "alloc" THEN AllocDirs(c)
    ELSE IF l.family = "probe" THEN ProbeDirs
    ELSE IF l.family = "cache" THEN CacheFamilyDirs
    ELSE {OfflineDir, RegularDir(l, c)}  \* regular and concurrent

(***************************************************************************)
(* State                                                                   *)
(***************************************************************************)
VARIABLES
    pc,         \* "init", "nodes" (the readdir loop of build_context),
                \* "cpus" (the readdir loop of do_node_cpus), "built",
                \* "failed" (topology_init_context returned 1), "freed",
                \* "crashed" (the process was killed by a signal)
    layout,     \* the sysfs tree, see above
    cpufs,      \* the cpu directories read so far: cpu id -> directory
    ctx,        \* struct topo_context
    ents,       \* arena of struct topo_procent
    devs,       \* arena of the registered struct topo_device
    mem,        \* the allocations, see Memory
    todoNodes,  \* node ids readdir has not returned yet (build_context)
    curNode,    \* the node entity do_node_cpus works on
    todoCpus,   \* cpu ids readdir has not returned yet (do_node_cpus)
    query,      \* the call a client has made on the built context and
                \* its result
    calls       \* the calls in progress of the concurrent callers

vars == <<pc, layout, cpufs, ctx, ents, devs, mem, todoNodes, curNode,
          todoCpus, query, calls>>

Heap == [ctx |-> ctx, ents |-> ents, devs |-> devs, mem |-> mem]

\* src, commas: the mask and the flag given to format_cpuset; cpumask,
\* size: the target of topology_cpumask_parse and its width
\* the concurrent callers
Callers == {"a", "b"}

\* the locals of a call in progress: its arguments, the cursor of its loop
\* (ent of next_at_level, dev of find_device_by_type), whether it has
\* returned and what
NoCall ==
    [op |-> "none", from |-> NULL, iter |-> NULL, to |-> 0, type |-> "",
     name |-> "", cur |-> NULL, done |-> FALSE, ret |-> NULL,
     str |-> NULLSTR, mask |-> {}]

NoQuery ==
    [op |-> "none", from |-> NULL, iter |-> NULL, to |-> 0, type |-> "",
     name |-> "", ret |-> NULL, str |-> NULLSTR, src |-> {},
     commas |-> FALSE, cpumask |-> {}, size |-> 0]

InitFamily(family) ==
    /\ pc = "init"
    /\ layout \in Layouts(family)
    /\ cpufs = <<>>
    /\ ctx = NoCtx
    /\ ents = <<>>
    /\ devs = <<>>
    /\ mem = [NoMem EXCEPT !.failat = layout.failat]
    /\ todoNodes = {}
    /\ curNode = NULL
    /\ todoCpus = {}
    /\ query = NoQuery
    /\ calls = IF family = "concurrent" THEN [p \in Callers |-> NoCall]
               ELSE <<>>

Init == InitFamily("regular")
InitTopology == InitFamily("topology")
InitCache == InitFamily("cache")
InitProbe == InitFamily("probe")
InitAlloc == InitFamily("alloc")
InitConcurrent == InitFamily("concurrent")

(***************************************************************************)
(* topology_init_context                                                   *)
(***************************************************************************)
\* the loop over ctx->list of context_release
RECURSIVE ReleaseEntities(_, _)
ReleaseEntities(G, ent) ==
    IF ent = NULL THEN G
    ELSE ReleaseEntities(topo_procent_release(G, ent), G.ents[ent].next)

\* the loop over ctx->devices of context_release
RECURSIVE ReleaseDevices(_, _)
ReleaseDevices(G, dev) ==
    IF dev = NULL THEN G
    ELSE ReleaseDevices(topo_device_release(G, G.devs[dev], dev),
                        G.devs[dev].next)

\* of a context that is not NULL; nothing of it can be used afterwards
context_release(G) ==
    LET G1 == ReleaseDevices(ReleaseEntities(G, G.ctx.list), G.ctx.devices)
        G2 == htable_release(htable_release(htable_release(
                  G1, "package_htable"), "core_htable"), "device_htable")
    IN  [NoHeap EXCEPT !.mem = free(G2, <<"ctx">>).mem]

\* new_context up to the opendir of devices/system/node in build_context;
\* l is the sysfs tree
new_context(G, l) ==
    Bind(zmalloc(G, <<"ctx">>), LAMBDA c :
    IF ~c.ok THEN [G |-> c.G, ok |-> FALSE] ELSE
    Bind(probe_cpumask_size(c.G, l.cpudir, Cpus(l), l.override, l.kmask),
         LAMBDA p :
    IF p.size = 0
    THEN [G |-> context_release([p.G EXCEPT !.ctx.cpu_set_t_size = p.size]),
          ok |-> FALSE]
    ELSE
    Bind(htable_init([p.G EXCEPT !.ctx.cpu_set_t_size = p.size],
                     "package_htable", p.size * 8), LAMBDA h1 :
    IF h1.rc # 0 THEN [G |-> context_release(h1.G), ok |-> FALSE] ELSE
    Bind(htable_init(h1.G, "core_htable", p.size * 8), LAMBDA h2 :
    IF h2.rc # 0 THEN [G |-> context_release(h2.G), ok |-> FALSE] ELSE
    Bind(htable_init(h2.G, "device_htable", DEVICE_HTABLE_INIT), LAMBDA h3 :
    IF h3.rc # 0 THEN [G |-> context_release(h3.G), ok |-> FALSE] ELSE
    Bind(alloc_init_topo_procent(h3.G, NULL, 0), LAMBDA sys :
    IF sys.ent = NULL THEN [G |-> context_release(sys.G), ok |-> FALSE]
    ELSE [G |-> [sys.G EXCEPT !.ctx.system = sys.ent], ok |-> TRUE]))))))

SetHeap(G) ==
    /\ ctx' = G.ctx
    /\ ents' = G.ents
    /\ devs' = G.devs
    /\ mem' = G.mem

\* Without devices/system/node build_context calls do_one_node(system, 0).
NewContext ==
    /\ pc = "init"
    /\ LET r == new_context(Heap, layout)
       IN  /\ SetHeap(r.G)
           /\ pc' = IF r.ok THEN "nodes" ELSE "failed"
           /\ todoNodes' = IF ~r.ok THEN {}
                           ELSE IF layout.numa = -1 THEN {0}
                           ELSE 0..(layout.numa - 1)
    /\ UNCHANGED <<layout, cpufs, curNode, todoCpus, query, calls>>

\* do_one_node up to the opendir of do_node_cpus: the node's own directory,
\* or devices/system/cpu when node 0 has none
DoOneNode(nid) ==
    /\ pc = "nodes"
    /\ nid \in todoNodes
    /\ LET node == alloc_init_topo_procent(Heap, ctx.system, nid)
           nodedir == layout.numa # -1 /\ nid < layout.numa
           opened == nodedir \/ (nid = 0 /\ layout.cpudir)
       IN  IF node.ent = NULL \/ ~opened
           THEN /\ pc' = "failed"
                /\ SetHeap(context_release(node.G))
                /\ todoNodes' = {}
                /\ curNode' = NULL
                /\ todoCpus' = {}
           ELSE /\ pc' = "cpus"
                /\ SetHeap(node.G)
                /\ todoNodes' = todoNodes \ {nid}
                /\ curNode' = node.ent
                /\ todoCpus' = NodeCpus(layout, nid)
    /\ UNCHANGED <<layout, cpufs, query, calls>>

\* the directory of cpu c: as read before, or drawn now
ReadCpuDir(c) ==
    IF c \in DOMAIN cpufs THEN {cpufs[c]} ELSE DirChoices(layout, c)

\* an iteration of the loop of do_node_cpus on an entry of an offline cpu
CpuOffline(c) ==
    /\ pc = "cpus"
    /\ c \in todoCpus
    /\ \E dir \in ReadCpuDir(c) :
         LET on == sysfs_cpu_is_online(Heap, dir)
         IN  /\ on.rc = 0
             /\ cpufs' = (c :> dir) @@ cpufs
             /\ SetHeap(on.G)
    /\ todoCpus' = todoCpus \ {c}
    /\ UNCHANGED <<pc, layout, todoNodes, curNode, query, calls>>

\* an iteration of the loop of do_node_cpus that calls do_one_cpu; when
\* that fails the error goes up to new_context, which releases the context
DoOneCpu(c) ==
    /\ pc = "cpus"
    /\ c \in todoCpus
    /\ \E dir \in ReadCpuDir(c) :
         LET on == sysfs_cpu_is_online(Heap, dir)
             r == do_one_cpu(on.G, curNode, c, dir)
         IN  /\ on.rc # 0
             /\ cpufs' = (c :> dir) @@ cpufs
             /\ IF r.G.mem.fault
                THEN /\ pc' = "crashed"
                     /\ SetHeap(r.G)
                     /\ UNCHANGED <<todoNodes, curNode, todoCpus, calls>>
                ELSE IF r.rc # 0
                THEN /\ pc' = "failed"
                     /\ SetHeap(context_release(r.G))
                     /\ todoNodes' = {}
                     /\ curNode' = NULL
                     /\ todoCpus' = {}
                ELSE /\ pc' = pc
                     /\ SetHeap(r.G)
                     /\ todoCpus' = todoCpus \ {c}
                     /\ UNCHANGED <<todoNodes, curNode, calls>>
    /\ UNCHANGED <<layout, query, calls>>

\* readdir returns NULL in do_node_cpus: do_one_node returns 0
EndNodeCpus ==
    /\ pc = "cpus"
    /\ todoCpus = {}
    /\ pc' = IF layout.numa = -1 THEN "built" ELSE "nodes"
    /\ curNode' = NULL
    /\ UNCHANGED <<layout, cpufs, ctx, ents, devs, mem, todoNodes, todoCpus,
                   query, calls>>

\* readdir returns NULL in build_context: topology_init_context returns 0
EndBuild ==
    /\ pc = "nodes"
    /\ todoNodes = {}
    /\ pc' = "built"
    /\ UNCHANGED <<layout, cpufs, ctx, ents, devs, mem, todoNodes, curNode,
                   todoCpus, query, calls>>

\* no call is in progress
topology_free_context ==
    /\ pc = "built"
    /\ query = NoQuery
    /\ \A p \in DOMAIN calls : calls[p] = NoCall
    /\ pc' = "freed"
    /\ SetHeap(context_release(Heap))
    /\ UNCHANGED <<layout, cpufs, todoNodes, curNode, todoCpus, query, calls>>

(***************************************************************************)
(* Query calls of a client on the built context                            *)
(***************************************************************************)
Handles == 0..Len(ents)
DevHandles == 0..Len(devs)
\* 0 and 6 are not levels
LevelArgs == 0..(TOPOLOGY_SYSTEM + 1)
TypeArgs == {"cache", "disk"}
NameArgs == {"size", "type", "level", "shared_cpu_map", "ways"}

topology_traverse(from, iter, to) ==
    /\ pc = "built"
    /\ query = NoQuery
    /\ query' = [NoQuery EXCEPT !.op = "traverse", !.from = from,
                                !.iter = iter, !.to = to,
                                !.ret = traverse(ents, ctx.list, from, iter,
                                                 to)]
    /\ UNCHANGED <<pc, layout, cpufs, ctx, ents, devs, mem, todoNodes,
                   curNode, todoCpus, calls>>

topology_find_device_by_type(prev, type) ==
    /\ pc = "built"
    /\ query = NoQuery
    /\ query' = [NoQuery EXCEPT !.op = "find_device_by_type", !.from = prev,
                                !.type = type,
                                !.ret = find_device_by_type(devs, ctx.devices,
                                                            prev, type)]
    /\ UNCHANGED <<pc, layout, cpufs, ctx, ents, devs, mem, todoNodes,
                   curNode, todoCpus, calls>>

topology_device_get_attribute(dev, name) ==
    /\ pc = "built"
    /\ query = NoQuery
    /\ query' = [NoQuery EXCEPT !.op = "device_get_attribute", !.from = dev,
                                !.name = name,
                                !.str = topo_device_get_attr_value(devs[dev],
                                                                   name)]
    /\ UNCHANGED <<pc, layout, cpufs, ctx, ents, devs, mem, todoNodes,
                   curNode, todoCpus, calls>>

\* the client takes the result
QueryReturn ==
    /\ pc = "built"
    /\ query # NoQuery
    /\ query' = NoQuery
    /\ UNCHANGED <<pc, layout, cpufs, ctx, ents, devs, mem, todoNodes,
                   curNode, todoCpus, calls>>

Build ==
    \/ NewContext
    \/ \E nid \in todoNodes : DoOneNode(nid)
    \/ \E c \in todoCpus : CpuOffline(c)
    \/ \E c \in todoCpus : DoOneCpu(c)
    \/ EndNodeCpus
    \/ EndBuild
    \/ topology_free_context

Queries ==
    \/ \E from \in Handles, iter \in Handles, to \in LevelArgs :
           topology_traverse(from, iter, to)
    \/ \E prev \in DevHandles, type \in TypeArgs :
           topology_find_device_by_type(prev, type)
    \/ \E dev \in DevHandles \ {NULL}, name \in NameArgs :
           topology_device_get_attribute(dev, name)
    \/ QueryReturn

Next == Build \/ Queries

\* regular machines, build and queries
Spec == Init /\ [][Next]_vars
\* arbitrary topology files, build only
SpecTopology == InitTopology /\ [][Build]_vars
\* arbitrary cache directories, build only
SpecCache == InitCache /\ [][Build]_vars
\* cpu ids and kernel cpumask widths around the word boundaries, build only
SpecProbe == InitProbe /\ [][Build]_vars
\* builds in which an allocation fails
SpecAlloc == InitAlloc /\ [][Build]_vars

(***************************************************************************)
(* Queries of concurrent callers                                           *)
(* A call is entered, makes the turns of its loop one at a time and        *)
(* returns; the turns of different callers interleave.                     *)
(***************************************************************************)
\* traverse ends in next_at_level
TraverseScans(G, from, to) ==
    level_valid(to) /\ from # NULL /\ to < G.ents[from].level - 1

\* the call c up to the first test of its loop, or up to its return when it
\* has no loop
QueryEnter(G, c) ==
    IF c.op = "traverse"
    THEN IF TraverseScans(G, c.from, c.to)
         THEN [G |-> G,
               c |-> [c EXCEPT !.cur = IF c.iter # NULL
                                       THEN G.ents[c.iter].next
                                       ELSE G.ctx.list]]
         ELSE [G |-> G,
               c |-> [c EXCEPT !.done = TRUE,
                               !.ret = traverse(G.ents, G.ctx.list, c.from,
                                                c.iter, c.to)]]
    ELSE IF c.op = "find_device_by_type"
    THEN [G |-> G,
          c |-> [c EXCEPT !.cur = IF c.from # NULL THEN G.devs[c.from].next
                                  ELSE G.ctx.devices]]
    ELSE IF c.op = "device_get_attribute"
    THEN [G |-> G,
          c |-> [c EXCEPT !.done = TRUE,
                          !.str = topo_device_get_attr_value(G.devs[c.from],
                                                             c.name)]]
    ELSE IF c.op = "device_cpumask"
    THEN [G |-> G,
          c |-> [c EXCEPT !.done = TRUE,
                          !.mask = topo_device_copy_cpumask(G.devs, c.from)]]
    ELSE IF c.op = "procent_cpumask"
    THEN [G |-> G,
          c |-> [c EXCEPT !.done = TRUE,
                          !.mask = topo_procent_copy_cpumask(G.ents, c.from)]]
    ELSE [G |-> G,
          c |-> [c EXCEPT !.done = TRUE, !.ret = G.ctx.cpu_set_t_size]]

\* faulty variant: the position of the scan is kept in the context, in the
\* head of the list that is scanned
QueryStepSharedCursor(G, c) ==
    IF c.op = "traverse"
    THEN IF c.cur = NULL
         THEN [G |-> G, c |-> [c EXCEPT !.done = TRUE, !.ret = NULL]]
         ELSE IF G.ents[c.cur].level = c.to
                 /\ is_descendant(G.ents, c.from, c.cur)
         THEN [G |-> G, c |-> [c EXCEPT !.done = TRUE, !.ret = c.cur]]
         ELSE [G |-> [G EXCEPT !.ctx.list = G.ents[c.cur].next],
               c |-> [c EXCEPT !.cur = G.ents[c.cur].next]]
    ELSE IF c.cur = NULL
    THEN [G |-> G, c |-> [c EXCEPT !.done = TRUE, !.ret = NULL]]
    ELSE IF G.devs[c.cur].type = c.type
    THEN [G |-> G, c |-> [c EXCEPT !.done = TRUE, !.ret = c.cur]]
    ELSE [G |-> [G EXCEPT !.ctx.devices = G.devs[c.cur].next],
          c |-> [c EXCEPT !.cur = G.devs[c.cur].next]]

\* one turn of the loop of next_at_level or of find_device_by_type
QueryStep(G, c) ==
    IF c.op = "traverse"
    THEN IF c.cur = NULL
         THEN [G |-> G, c |-> [c EXCEPT !.done = TRUE, !.ret = NULL]]
         ELSE IF G.ents[c.cur].level = c.to
                 /\ is_descendant(G.ents, c.from, c.cur)
         THEN [G |-> G, c |-> [c EXCEPT !.done = TRUE, !.ret = c.cur]]
         ELSE [G |-> G, c |-> [c EXCEPT !.cur = G.ents[c.cur].next]]
    ELSE IF c.cur = NULL
    THEN [G |-> G, c |-> [c EXCEPT !.done = TRUE, !.ret = NULL]]
    ELSE IF G.devs[c.cur].type = c.type
    THEN [G |-> G, c |-> [c EXCEPT !.done = TRUE, !.ret = c.cur]]
    ELSE [G |-> G, c |-> [c EXCEPT !.cur = G.devs[c.cur].next]]

\* the calls a caller makes: the descendants and the children of the system
\* from every iterator of their level, the system from every thread, the
\* devices of a type after every device, an attribute and the mask of
\* every device, the mask of every entity, the width of the masks
CallArgs ==
    {[NoCall EXCEPT !.op = "traverse", !.from = ctx.system, !.iter = i,
                    !.to = t] :
        i \in {NULL} \cup {e \in 1..Len(ents) :
                              ents[e].level \in {TOPOLOGY_THREAD,
                                                 TOPOLOGY_NODE}},
        t \in {TOPOLOGY_THREAD, TOPOLOGY_NODE}}
    \cup
    {[NoCall EXCEPT !.op = "traverse", !.from = e, !.to = TOPOLOGY_SYSTEM] :
        e \in {e \in 1..Len(ents) : ents[e].level = TOPOLOGY_THREAD}}
    \cup
    {[NoCall EXCEPT !.op = "find_device_by_type", !.from = d, !.type = t] :
        d \in DevHandles, t \in TypeArgs}
    \cup
    {[NoCall EXCEPT !.op = "device_get_attribute", !.from = d, !.name = n] :
        d \in 1..Len(devs), n \in {"level", "ways"}}
    \cup
    {[NoCall EXCEPT !.op = "device_cpumask", !.from = d] :
        d \in 1..Len(devs)}
    \cup
    {[NoCall EXCEPT !.op = "procent_cpumask", !.from = e] :
        e \in 1..Len(ents)}
    \cup
    {[NoCall EXCEPT !.op = "sizeof_cpumask"]}

\* caller p enters a call
Call(p) ==
    /\ pc = "built"
    /\ calls[p] = NoCall
    /\ \E c \in CallArgs :
         LET r == QueryEnter(Heap, c)
         IN  /\ SetHeap(r.G)
             /\ calls' = [calls EXCEPT ![p] = r.c]
    /\ UNCHANGED <<pc, layout, cpufs, todoNodes, curNode, todoCpus, query>>

\* the call of caller p makes a turn of its loop
Turn(p) ==
    /\ pc = "built"
    /\ calls[p] # NoCall
    /\ ~calls[p].done
    /\ LET r == QueryStep(Heap, calls[p])
       IN  /\ SetHeap(r.G)
           /\ calls' = [calls EXCEPT ![p] = r.c]
    /\ UNCHANGED <<pc, layout, cpufs, todoNodes, curNode, todoCpus, query>>

\* caller p takes the result
Return(p) ==
    /\ pc = "built"
    /\ calls[p].done
    /\ calls' = [calls EXCEPT ![p] = NoCall]
    /\ UNCHANGED <<pc, layout, cpufs, ctx, ents, devs, mem, todoNodes,
                   curNode, todoCpus, query>>

ConcurrentQueries ==
    \/ \E p \in Callers : Call(p)
    \/ \E p \in Callers : Turn(p)
    \/ \E p \in Callers : Return(p)

NextConcurrent == Build \/ ConcurrentQueries

\* small regular machines, build and the queries of concurrent callers
SpecConcurrent == InitConcurrent /\ [][NextConcurrent]_vars

(***************************************************************************)
(* The cpumask functions called on their own                               *)
(***************************************************************************)
\* the hex digit values of the unsigned int cpuset_to_uint returns, most
\* significant first (the sum of the 1 << i itself exceeds TLC's integers)
cpuset_to_uint(cpumask, size, index) ==
    [n \in 1..8 |->
        MaskValue({i \in 0..3 :
            CPU_ISSET_S(i + 4 * (8 - n) + index * 32, size, cpumask)})]

WordIsZero(word) == \A n \in 1..8 : word[n] = 0

\* sprintf "%08x"
Hex08(word) == [n \in 1..8 |-> HexDigits[word[n] + 1]]

\* sprintf "%x" of a word that is not zero
Hex(word) ==
    LET first == CHOOSE n \in 1..8 :
                     word[n] # 0 /\ \A m \in 1..(n - 1) : word[m] = 0
    IN  SubSeq(Hex08(word), first, 8)

\* faulty variant: every word is printed with "%x"
RECURSIVE FormatLoopUnpadded(_, _, _, _, _)
FormatLoopUnpadded(nwords, nonzero_seen, cpumask, cpuset_size, commas) ==
    IF nwords = 0 THEN (IF ~nonzero_seen THEN <<"0">> ELSE <<>>)
    ELSE LET word == cpuset_to_uint(cpumask, cpuset_size, nwords - 1)
         IN  IF WordIsZero(word) /\ ~nonzero_seen
             THEN FormatLoopUnpadded(nwords - 1, FALSE, cpumask, cpuset_size,
                                     commas)
             ELSE (IF ~WordIsZero(word) THEN Hex(word) ELSE <<"0">>)
                  \o (IF nwords - 1 # 0 /\ commas THEN <<",">> ELSE <<>>)
                  \o FormatLoopUnpadded(nwords - 1, TRUE, cpumask,
                                        cpuset_size, commas)

\* the loop "while (nwords--)" of format_cpuset and the "0" of an empty mask
RECURSIVE FormatLoop(_, _, _, _, _)
FormatLoop(nwords, nonzero_seen, cpumask, cpuset_size, commas) ==
    IF nwords = 0 THEN (IF ~nonzero_seen THEN <<"0">> ELSE <<>>)
    ELSE LET word == cpuset_to_uint(cpumask, cpuset_size, nwords - 1)
         IN  IF WordIsZero(word) /\ ~nonzero_seen
             THEN FormatLoop(nwords - 1, FALSE, cpumask, cpuset_size, commas)
             ELSE (IF ~WordIsZero(word) /\ ~nonzero_seen THEN Hex(word)
                   ELSE Hex08(word))
                  \o (IF nwords - 1 # 0 /\ commas THEN <<",">> ELSE <<>>)
                  \o FormatLoop(nwords - 1, TRUE, cpumask, cpuset_size,
                                commas)

\* bytes_per_word is sizeof(uint32_t)
format_cpuset(cpumask, cpuset_size, commas) ==
    FormatLoop(IF cpuset_size > 4 THEN cpuset_size \div 4 ELSE 1, FALSE,
               cpumask, cpuset_size, commas)

\* no sysfs tree is read by these functions
NoLayout ==
    [family |-> "none", numa |-> -1, cpudir |-> FALSE, override |-> FALSE,
     tpc |-> 0, cpp |-> 0, kmask |-> KernelMaskBytes, ids |-> {},
     failat |-> 0]

ParseAlphabet == {"0", "1", "8", "a", "F", ",", "\n", "x"}
Strings(n) == UNION {[1..k -> ParseAlphabet] : k \in 0..n}
ZeroRun(k) == [i \in 1..k |-> "0"]

\* the widths of one and of two unsigned longs
ParseSizes == {CPU_ALLOC_SIZE(1), CPU_ALLOC_SIZE(65)}

\* the run of zeros moves the leading characters to the last digit of the
\* narrower width and beyond it
ParseInputs ==
    {h \o ZeroRun(k) \o l :
        h \in Strings(MaxHigh), k \in {0, 2 * CPU_ALLOC_SIZE(1) - 1},
        l \in Strings(MaxLow)}

\* what the target holds before the call
PriorMasks(size) == {{}, {1, 8 * size - 1}}

\* the masks given to format_cpuset: bits at the ends of the 32-bit words
FormatMasks(size) == SUBSET {0, 31, 32, 8 * size - 4, 8 * size - 1}

InitParse ==
    /\ pc = "parse"
    /\ layout = NoLayout
    /\ cpufs = <<>>
    /\ ctx = NoCtx
    /\ ents = <<>>
    /\ devs = <<>>
    /\ mem = NoMem
    /\ todoNodes = {}
    /\ curNode = NULL
    /\ todoCpus = {}
    /\ calls = <<>>
    /\ \E size \in ParseSizes : \E prior \in PriorMasks(size) :
          \/ \E buf \in ParseInputs :
                query = [NoQuery EXCEPT !.str = Str(buf), !.size = size,
                                        !.cpumask = prior]
          \/ \E m \in FormatMasks(size), c \in BOOLEAN :
                query = [NoQuery EXCEPT !.src = m, !.commas = c,
                                        !.size = size, !.cpumask = prior]

\* the client formats its mask
FormatCpuset ==
    /\ pc = "parse"
    /\ query.op = "none"
    /\ ~query.str.ok
    /\ query' = [query EXCEPT
                    !.op = "format_cpuset",
                    !.str = Str(format_cpuset(query.src, query.size,
                                              query.commas))]
    /\ UNCHANGED <<pc, layout, cpufs, ctx, ents, devs, mem, todoNodes,
                   curNode, todoCpus, calls>>

\* the client parses a string, one it was given or one it formatted
CpumaskParse ==
    /\ pc = "parse"
    /\ query.op \in {"none", "format_cpuset"}
    /\ query.str.ok
    /\ LET r == topology_cpumask_parse(query.cpumask, query.size,
                                       query.str.s)
       IN  query' = [query EXCEPT
                        !.op = "cpumask_parse",
                        !.name = query.op,
                        !.ret = r.rc,
                        !.cpumask = r.mask]
    /\ UNCHANGED <<pc, layout, cpufs, ctx, ents, devs, mem, todoNodes,
                   curNode, todoCpus, calls>>

ParseNext == FormatCpuset \/ CpumaskParse

\* strings and masks given to the cpumask functions
SpecParse == InitParse /\ [][ParseNext]_vars

(***************************************************************************)
(* Properties                                                              *)
(***************************************************************************)
\* a context exists: between new_context and its release
HasContext == pc \in {"nodes", "cpus", "built"}

EntIds == 1..Len(ents)
DevIds == 1..Len(devs)
EntsAt(level) == {e \in EntIds : ents[e].level = level}

\* the entities of a children/sibling chain starting at e
RECURSIVE SiblingChain(_)
SiblingChain(e) ==
    IF e = NULL THEN {} ELSE {e} \cup SiblingChain(ents[e].sibling)

\* the direct children of e
ChildrenOf(e) == SiblingChain(ents[e].children)

\* e and everything below it
RECURSIVE Subtree(_)
Subtree(e) == {e} \cup UNION {Subtree(c) : c \in ChildrenOf(e)}

\* the entity reached from e by following n parent links
RECURSIVE NthParent(_, _)
NthParent(e, n) ==
    IF n = 0 \/ e = NULL THEN e ELSE NthParent(ents[e].parent, n - 1)

\* the cpus for which do_one_cpu has run
OnlineCpus ==
    {c \in DOMAIN cpufs : sysfs_cpu_is_online(NoHeap, cpufs[c]).rc # 0}

\* C1: in a built context the cpumask of every THREAD entity has exactly
\* one bit set, the bit of the thread's id.
C1_ThreadMaskIsOwnBit ==
    pc = "built" =>
        \A t \in EntsAt(TOPOLOGY_THREAD) :
            /\ Cardinality(ents[t].cpumask) = 1
            /\ ents[t].id \in ents[t].cpumask

C1_Witness ==
    /\ pc = "built"
    /\ \E t1, t2 \in EntsAt(TOPOLOGY_THREAD) :
         /\ ents[t1].id # ents[t2].id
         /\ ents[t1].cpumask = {ents[t1].id}
         /\ ents[t2].cpumask = {ents[t2].id}

\* C2: after every step of the build and in the built context the cpumask
\* of every entity that is not a thread is the union of the cpumasks of its
\* direct children, hence the set of the thread ids of its subtree; it is
\* empty for an entity without children.
C2_MaskIsUnionOfChildren ==
    HasContext =>
        \A e \in EntIds :
            ents[e].level # TOPOLOGY_THREAD =>
                /\ ents[e].cpumask =
                       UNION {ents[c].cpumask : c \in ChildrenOf(e)}
                /\ ents[e].cpumask =
                       {ents[t].id : t \in {x \in Subtree(e) :
                                      ents[x].level = TOPOLOGY_THREAD}}
                /\ (ents[e].children = NULL => ents[e].cpumask = {})

C2_Witness ==
    /\ pc = "built"
    /\ \E e \in EntsAt(TOPOLOGY_PACKAGE) :
         /\ Cardinality(ChildrenOf(e)) >= 2
         /\ Cardinality(ents[e].cpumask) >= 2
         /\ ents[ctx.system].cpumask # ents[e].cpumask

\* C3: a context has exactly one SYSTEM entity and it has no parent; every
\* other entity has a parent exactly one level above it; a THREAD entity
\* never has children.
C3_TreeShape ==
    HasContext =>
        /\ Cardinality(EntsAt(TOPOLOGY_SYSTEM)) = 1
        /\ \A e \in EntIds :
             /\ level_valid(ents[e].level)
             /\ (ents[e].level = TOPOLOGY_SYSTEM =>
                     ents[e].parent = NULL /\ ctx.system = e)
             /\ (ents[e].level # TOPOLOGY_SYSTEM =>
                     /\ ents[e].parent # NULL
                     /\ ents[ents[e].parent].level = ents[e].level + 1)
             /\ (ents[e].level = TOPOLOGY_THREAD =>
                     /\ ents[e].children = NULL
                     /\ \A c \in EntIds : ents[c].parent # e)

C3_Witness ==
    /\ pc = "built"
    /\ \A l \in TOPOLOGY_THREAD..TOPOLOGY_SYSTEM : EntsAt(l) # {}
    /\ Cardinality(EntsAt(TOPOLOGY_NODE)) >= 2
    /\ Cardinality(EntsAt(TOPOLOGY_THREAD)) >= 2

\* the THREAD entities created for cpu c
ThreadsOf(c) == {t \in EntsAt(TOPOLOGY_THREAD) : ents[t].id = c}

\* the ancestor of e at the given level, by parent links
AncestorAt(e, level) == NthParent(e, level - ents[e].level)

\* the cpus whose thread_siblings / core_siblings file exists
HasThreadSiblings(c) == c \in OnlineCpus /\ cpufs[c].thread_siblings.ok
HasCoreSiblings(c) == c \in OnlineCpus /\ cpufs[c].core_siblings.ok

\* C4: two threads whose cpus have equal thread_siblings strings have the
\* same CORE parent, and two threads whose cpus have equal core_siblings
\* strings have the same PACKAGE ancestor.
C4_EqualSiblingsSameEntity ==
    pc = "built" =>
        \A t1, t2 \in EntsAt(TOPOLOGY_THREAD) :
            LET c1 == ents[t1].id
                c2 == ents[t2].id
            IN  /\ (/\ HasThreadSiblings(c1) /\ HasThreadSiblings(c2)
                    /\ cpufs[c1].thread_siblings = cpufs[c2].thread_siblings)
                       => ents[t1].parent = ents[t2].parent
                /\ (/\ HasCoreSiblings(c1) /\ HasCoreSiblings(c2)
                    /\ cpufs[c1].core_siblings = cpufs[c2].core_siblings)
                       => AncestorAt(t1, TOPOLOGY_PACKAGE) =
                          AncestorAt(t2, TOPOLOGY_PACKAGE)

\* C5: the core of every thread has the thread_siblings string of the
\* thread's cpu as signature and is a child of the package whose signature
\* is the core_siblings string of that cpu; two cpus with the same
\* thread_siblings string and different core_siblings strings are in two
\* distinct cores.
C5_CoreUnderPackageOfCpu ==
    pc = "built" =>
        /\ \A t \in EntsAt(TOPOLOGY_THREAD) :
             LET c == ents[t].id
                 core == ents[t].parent
             IN  (HasThreadSiblings(c) /\ HasCoreSiblings(c)) =>
                     /\ ents[core].hash_key = cpufs[c].thread_siblings
                     /\ ents[ents[core].parent].hash_key =
                            cpufs[c].core_siblings
        /\ \A t1, t2 \in EntsAt(TOPOLOGY_THREAD) :
             LET c1 == ents[t1].id
                 c2 == ents[t2].id
             IN  (/\ HasThreadSiblings(c1) /\ HasThreadSiblings(c2)
                  /\ HasCoreSiblings(c1) /\ HasCoreSiblings(c2)
                  /\ cpufs[c1].thread_siblings = cpufs[c2].thread_siblings
                  /\ cpufs[c1].core_siblings # cpufs[c2].core_siblings)
                     => ents[t1].parent # ents[t2].parent

\* the cpus do_node_cpus enumerates for the node entity n
CpusListedUnder(n) == NodeCpus(layout, ents[n].id)

\* C6: the thread of every online cpu enumerated under a node has that node
\* as its NODE ancestor, and the cpumask of the node is exactly the set of
\* the online cpus enumerated under it.
C6_ThreadUnderItsNode ==
    pc = "built" =>
        \A n \in EntsAt(TOPOLOGY_NODE) :
            /\ \A c \in CpusListedUnder(n) \cap OnlineCpus :
                 /\ ThreadsOf(c) # {}
                 /\ \A t \in ThreadsOf(c) :
                        traverse(ents, ctx.list, t, NULL, TOPOLOGY_NODE) = n
                 /\ c \in ents[n].cpumask
            /\ ents[n].cpumask = CpusListedUnder(n) \cap OnlineCpus

\* C7: the cpumask of every registered device has at least one bit set and
\* every bit set in it is the id of a THREAD entity of the context.
C7_DeviceMaskNamesThreads ==
    pc = "built" =>
        \A d \in DevIds :
            /\ devs[d].cpumask # {}
            /\ \A b \in devs[d].cpumask : ThreadsOf(b) # {}

\* (level, type, shared_cpu_map) of a device record
TripleOf(dev) ==
    <<topo_device_get_attr_value(dev, "level"),
      topo_device_get_attr_value(dev, "type"),
      topo_device_get_attr_value(dev, "shared_cpu_map")>>

\* the devices of the list that starts at d, in list order
RECURSIVE DeviceList(_)
DeviceList(d) ==
    IF d = NULL THEN <<>> ELSE <<d>> \o DeviceList(devs[d].next)

\* C8: no two devices of the context's device list have the same
\* (level, type, shared_cpu_map): a cache seen again from another cpu is
\* not registered a second time.
C8_DevicesUnique ==
    HasContext =>
        LET list == DeviceList(ctx.devices)
        IN  \A i, j \in 1..Len(list) :
                i # j => /\ list[i] # list[j]
                         /\ TripleOf(devs[list[i]]) # TripleOf(devs[list[j]])

\* two online cpus whose index0 directories describe the same cache, which
\* is registered once
C8_Witness ==
    /\ pc = "built"
    /\ \E c1, c2 \in OnlineCpus :
         /\ c1 # c2
         /\ 0 \in DOMAIN cpufs[c1].cache
         /\ 0 \in DOMAIN cpufs[c2].cache
         /\ cpufs[c1].cache[0] = IndexDir(0, File(<<"3", "\n">>))
         /\ cpufs[c2].cache[0] = IndexDir(0, File(<<"3", "\n">>))
         /\ Cardinality({d \in DevIds :
               TripleOf(devs[d]) =
                   <<Str(<<"1">>), Str(<<"D", "a", "t", "a">>),
                     Str(<<"3">>)>>}) = 1
    /\ Len(devs) >= 2

\* the record an index directory would give when read completely
SysfsDevice(c, k) ==
    LET d == cpufs[c].cache[k]
        a1 == sysfs_get_attr(NoHeap, 0, d, "size")
        a2 == sysfs_get_attr(NoHeap, 0, d, "type")
        a3 == sysfs_get_attr(NoHeap, 0, d, "level")
        a4 == sysfs_get_attr(NoHeap, 0, d, "shared_cpu_map")
        parsed == topology_cpumask_parse({}, ctx.cpu_set_t_size,
                                         a4.attr.value)
    IN  [ok |-> /\ a1.ok /\ a2.ok /\ a3.ok /\ a4.ok
                /\ parsed.rc = 0
                /\ c \in parsed.mask,
         size |-> Str(a1.attr.value), type |-> Str(a2.attr.value),
         level |-> Str(a3.attr.value),
         shared_cpu_map |-> Str(a4.attr.value), cpumask |-> parsed.mask]

\* the index directories of the online cpus
CacheDirsInSysfs ==
    {<<c, k>> \in OnlineCpus \X (0..(MaxIndex - 1)) :
        k \in DOMAIN cpufs[c].cache}

\* the results of topology_find_device_by_type(ctx, prev, type) called
\* with prev = 0 and then with its last result, until it returns 0
RECURSIVE FindAll(_, _)
FindAll(prev, type) ==
    LET dev == find_device_by_type(devs, ctx.devices, prev, type)
    IN  IF dev = NULL THEN <<>> ELSE <<dev>> \o FindAll(dev, type)

\* C9: when every index directory of every online cpu has all four
\* attributes and a valid shared_cpu_map containing the cpu, iterating
\* find_device_by_type "cache" yields exactly one device per distinct
\* (level, type, shared_cpu_map) in sysfs, with the parsed map as cpumask
\* and the size, type and level strings of sysfs as attributes.
C9_OneDevicePerCache ==
    (pc = "built" /\ \A p \in CacheDirsInSysfs : SysfsDevice(p[1], p[2]).ok)
    =>
        LET found == FindAll(NULL, "cache")
            Sys(p) == SysfsDevice(p[1], p[2])
        IN  /\ \A i, j \in 1..Len(found) : i # j => found[i] # found[j]
            /\ \A p \in CacheDirsInSysfs :
                 Cardinality({i \in 1..Len(found) :
                     TripleOf(devs[found[i]]) =
                         <<Sys(p).level, Sys(p).type,
                           Sys(p).shared_cpu_map>>}) = 1
            /\ \A i \in 1..Len(found) :
                 \E p \in CacheDirsInSysfs :
                     LET dev == devs[found[i]]
                     IN  /\ TripleOf(dev) =
                                <<Sys(p).level, Sys(p).type,
                                  Sys(p).shared_cpu_map>>
                         /\ dev.cpumask = Sys(p).cpumask
                         /\ topo_device_get_attr_value(dev, "size") =
                                Sys(p).size

\* C10: for an entity e and a valid level L above e.level, traverse(e, iter,
\* L) returns, whatever iter is, the ancestor of e reached by following
\* L - e.level parent links.
C10_TraverseUp ==
    (/\ query.op = "traverse"
     /\ query.from # NULL
     /\ level_valid(query.to)
     /\ ents[query.from].level < query.to)
    => /\ query.ret = NthParent(query.from,
                                query.to - ents[query.from].level)
       /\ query.ret # NULL
       /\ ents[query.ret].level = query.to

\* a thread asked for its node, with an iterator given
C10_Witness ==
    /\ query.op = "traverse"
    /\ query.from # NULL
    /\ ents[query.from].level = TOPOLOGY_THREAD
    /\ query.to = TOPOLOGY_NODE
    /\ query.iter # NULL
    /\ query.ret = ents[ents[ents[query.from].parent].parent].parent
    /\ Cardinality(EntsAt(TOPOLOGY_NODE)) >= 2

\* the results of calling traverse(from, iter, to) again and again, each
\* result fed back as iter, until NULL is returned; <<-1>> is appended when
\* NULL has not been returned after fuel calls
RECURSIVE TraverseAll(_, _, _, _)
TraverseAll(from, iter, to, fuel) ==
    LET r == traverse(ents, ctx.list, from, iter, to)
    IN  IF r = NULL THEN <<>>
        ELSE IF fuel = 0 THEN <<-1>>
        ELSE <<r>> \o TraverseAll(from, r, to, fuel - 1)

\* the entities of a level that have e in their parent chain
DescendantsAt(e, level) == {d \in Subtree(e) \ {e} : ents[d].level = level}

\* C11: for an entity `from` and a level L below from.level, calling
\* traverse(from, iter, L) from iter = 0 and feeding each result back as
\* iter returns every entity of level L with `from` in its parent chain
\* exactly once, no other entity, and then NULL; so every entity is reached
\* from the SYSTEM entity and x is among the results of enumerating x.level
\* from x's parent.
C11_TraverseDownEnumerates ==
    pc = "built" =>
        /\ \A from \in EntIds : \A L \in 1..(ents[from].level - 1) :
               LET found == TraverseAll(from, NULL, L, Len(ents))
               IN  /\ \A i \in 1..Len(found) : found[i] \in EntIds
                   /\ \A i, j \in 1..Len(found) :
                          i # j => found[i] # found[j]
                   /\ {found[i] : i \in 1..Len(found)} =
                          DescendantsAt(from, L)
                   /\ DescendantsAt(from, L) =
                          {d \in EntsAt(L) :
                             NthParent(d, ents[from].level - L) = from}
        /\ \A x \in EntIds \ {ctx.system} :
               LET up == traverse(ents, ctx.list, x, NULL, ents[x].level + 1)
                   found == TraverseAll(up, NULL, ents[x].level, Len(ents))
                   all == TraverseAll(ctx.system, NULL, ents[x].level,
                                      Len(ents))
               IN  /\ \E i \in 1..Len(found) : found[i] = x
                   /\ \E i \in 1..Len(all) : all[i] = x

\* a node enumerates two threads through the global list while another
\* node holds a thread that must be left out
C11_Witness ==
    /\ pc = "built"
    /\ \E n \in EntsAt(TOPOLOGY_NODE) :
           /\ Len(TraverseAll(n, NULL, TOPOLOGY_THREAD, Len(ents))) = 2
           /\ Cardinality(EntsAt(TOPOLOGY_THREAD)) = 3

\* topology_sizeof_cpumask on the context
topology_sizeof_cpumask == ctx.cpu_set_t_size

\* the widths the probe of the affinity call tries: w0, 2*w0, 4*w0, ...
ProbeWidths == {CPU_ALLOC_SIZE(1) * 2 ^ k : k \in 0..MaxKernelWords}

\* the first of these widths the call accepts
FirstAccepted ==
    CHOOSE w \in ProbeWidths :
        /\ sched_getaffinity(layout.kmask, w) = 0
        /\ \A v \in ProbeWidths :
               v < w => sched_getaffinity(layout.kmask, v) # 0

\* the number of 8-byte words that hold bits 0 .. n-1, in bytes
BytesForBits(n) ==
    8 * (CHOOSE k \in 1..(MaxProbeWords + 1) :
            64 * k >= n /\ 64 * (k - 1) < n)

\* the width for the largest cpu index under devices/system/cpu
SysfsWidth == BytesForBits(SetMax(Cpus(layout) \cup {0}) + 1)

\* C12: with dynamically sized masks the probed width W is W_sched when
\* W_sys <= W_sched, W_sys when W_sys > W_sched and
\* LIBTOPOLOGY_CPUMASK_OVERRIDE is set, and otherwise the probe fails and
\* init returns an error without producing a context; W_sys is the width
\* for (largest cpu index under devices/system/cpu) + 1 bits.
C12_ProbedWidth ==
    /\ HasContext =>
           \/ /\ SysfsWidth <= FirstAccepted
              /\ topology_sizeof_cpumask = FirstAccepted
           \/ /\ SysfsWidth > FirstAccepted
              /\ layout.override
              /\ topology_sizeof_cpumask = SysfsWidth
    /\ (SysfsWidth > FirstAccepted /\ ~layout.override) =>
           /\ pc \in {"init", "failed"}
           /\ Heap = NoHeap
    /\ ((SysfsWidth <= FirstAccepted \/ layout.override) /\ layout.cpudir)
           => pc # "failed"

\* a cpu beyond the width of the affinity call, the override set: the
\* context is built with the width taken from sysfs
C12_Witness ==
    /\ pc = "built"
    /\ layout.override
    /\ topology_sizeof_cpumask = SysfsWidth
    /\ SysfsWidth > FirstAccepted
    /\ \E t \in EntsAt(TOPOLOGY_THREAD) : ents[t].id >= 8 * FirstAccepted

\* C13: after a successful init the affinity call accepts the width
\* topology_sizeof_cpumask returns; W_sched is the first width of w0, 2*w0,
\* 4*w0, ... that the call accepts, the probe stops there, and the final
\* width is never smaller than W_sched.
C13_WidthAccepted ==
    HasContext =>
        /\ sched_getaffinity(layout.kmask, topology_sizeof_cpumask) = 0
        /\ topology_sizeof_cpumask >= FirstAccepted
        /\ sched_probe_cpumask_size(NoHeap, layout.kmask).size = FirstAccepted
        /\ ~layout.override => topology_sizeof_cpumask = FirstAccepted

\* the kernel's cpumask is three words wide: 8 and 16 bytes are refused,
\* 32 bytes are accepted
C13_Witness ==
    /\ pc = "built"
    /\ layout.kmask = 24
    /\ topology_sizeof_cpumask = 32
    /\ EntsAt(TOPOLOGY_THREAD) # {}

\* the value of a hex digit of either case
HexValue(ch) ==
    LET lower == IF ch = "A" THEN "a" ELSE IF ch = "B" THEN "b"
                 ELSE IF ch = "C" THEN "c" ELSE IF ch = "D" THEN "d"
                 ELSE IF ch = "E" THEN "e" ELSE IF ch = "F" THEN "f" ELSE ch
    IN  (CHOOSE n \in 1..16 : HexDigits[n] = lower) - 1

IsHexDigit(ch) ==
    \E n \in 1..16 : HexDigits[n] = ch \/ ch \in {"A", "B", "C", "D", "E", "F"}

\* the position of the last hex digit of buf, 0 if there is none
LastDigitPos(buf) ==
    IF \E p \in 1..Len(buf) : IsHexDigit(buf[p])
    THEN CHOOSE p \in 1..Len(buf) :
             IsHexDigit(buf[p]) /\ \A q \in (p + 1)..Len(buf) : ~IsHexDigit(buf[q])
    ELSE 0

\* buf up to its last hex digit holds hex digits and commas only
DigitRegionClean(buf) ==
    \A p \in 1..LastDigitPos(buf) : IsHexDigit(buf[p]) \/ buf[p] = ","

\* the hex digits of buf in their order
DigitsOf(buf) == SelectSeq(buf, IsHexDigit)

\* the parse call just made
Parsed == pc = "parse" /\ query.op = "cpumask_parse"

\* C14: for a string of hex digits and commas with at least one hex digit,
\* optionally followed by characters that are not hex digits,
\* topology_cpumask_parse succeeds and bit 4k+j of the mask (4k+j < 8W) is
\* set iff bit j of the k-th hex digit from the end, commas not counted,
\* is 1; both cases of a digit give the same bits and all other bits are
\* zero.
C14_ParseBits ==
    (Parsed /\ LastDigitPos(query.str.s) # 0
            /\ DigitRegionClean(query.str.s))
    =>
        LET digits == DigitsOf(query.str.s)
            n == Len(digits)
        IN  /\ query.ret = 0
            /\ query.cpumask =
                   {b \in 0..(8 * query.size - 1) :
                      /\ b \div 4 < n
                      /\ (HexValue(digits[n - (b \div 4)])
                             \div (2 ^ (b % 4))) % 2 = 1}

\* an upper-case digit and a comma before a run of zeros, a newline at the
\* end, a target that was not empty: the digit lands beyond the narrow
\* width and is dropped
C14_Witness ==
    /\ Parsed
    /\ query.size = CPU_ALLOC_SIZE(1)
    /\ query.str.s = <<"F", ",">> \o ZeroRun(2 * CPU_ALLOC_SIZE(1) - 1)
                                  \o <<"1", "\n">>
    /\ query.ret = 0
    /\ query.cpumask = {0}

\* C15: topology_cpumask_parse fails exactly when the string has no hex
\* digit or has a character that is neither a hex digit nor a comma before
\* its last hex digit; on every failure the target mask is all zero,
\* whatever it held before and whatever digits were consumed.
C15_ParseFailure ==
    Parsed =>
        /\ query.ret # 0 <=>
               (LastDigitPos(query.str.s) = 0
                   \/ ~DigitRegionClean(query.str.s))
        /\ query.ret # 0 => query.cpumask = {}

\* a bad character before digits that were already consumed
C15_Witness ==
    /\ Parsed
    /\ query.str.s = <<"x", "F">> \o ZeroRun(2 * CPU_ALLOC_SIZE(1) - 1)
                                  \o <<"1">>
    /\ query.ret # 0
    /\ query.cpumask = {}

\* C16: parse(format(mask)) = mask for every width and bit pattern, where
\* format is format_cpuset (32-bit hex words, most significant first,
\* comma-separated, leading zero words omitted, "0" for the empty mask) and
\* parse is topology_cpumask_parse at the same width.
C16_ParseFormatRoundTrip ==
    (Parsed /\ query.name = "format_cpuset")
    => /\ query.ret = 0
       /\ query.cpumask = query.src

\* a mask with bits in two words, formatted with a comma and read back
C16_Witness ==
    /\ Parsed
    /\ query.name = "format_cpuset"
    /\ query.src = {0, 32}
    /\ query.str.s = <<"1", ",", "0", "0", "0", "0", "0", "0", "0", "1">>
    /\ query.cpumask = {0, 32}

(***************************************************************************)
(* Failure and lifetime properties                                         *)
(***************************************************************************)
\* an allocation call has returned NULL
AllocationFailed == mem.failat > 0 /\ mem.count = mem.failat

\* no allocation is live, none was lost and none was freed twice
NothingHeld == mem.live = {} /\ mem.lost = {} /\ mem.dfree = {}

\* C17: init is transactional.  When an allocation fails
\* topology_init_context returns, and returns non-zero; when it returns
\* non-zero everything allocated so far has been released exactly once
\* (nothing is live, nothing was lost, nothing was freed twice) and the
\* caller holds no context.
C17_InitTransactional ==
    /\ pc # "crashed"
    /\ AllocationFailed => pc \notin {"built", "freed"}
    /\ pc = "failed" => (NothingHeld /\ ctx = NoCtx /\ ents = <<>>
                            /\ devs = <<>>)

\* the allocations of entity e
EntityTags(e) ==
    {<<"ent", e>>, <<"ent.cpumask", e>>}
        \cup (IF ents[e].hash_key.ok THEN {<<"ent.hash_key", e>>} ELSE {})

\* the allocations of the registered device d and of its attributes
DeviceTags(d) ==
    {<<"dev", d>>, <<"dev.cpumask", d>>, <<"dev.type", d>>}
        \cup (IF devs[d].hash_key.ok THEN {<<"dev.hash_key", d>>} ELSE {})
        \cup UNION {{<<"attr", d, devs[d].attrs[i].name>>,
                     <<"attr.name", d, devs[d].attrs[i].name>>,
                     <<"attr.value", d, devs[d].attrs[i].name>>} :
                       i \in 1..Len(devs[d].attrs)}

\* the context record and the tables hcreate_r has set up
ContextTags ==
    {<<"ctx">>} \cup
    {<<"htable", n>> : n \in {n \in {"package_htable", "core_htable",
                                     "device_htable"} :
                                ctx[n].maxsize # 0}}

\* everything the context refers to
Owned ==
    ContextTags \cup UNION {EntityTags(e) : e \in 1..Len(ents)}
                \cup UNION {DeviceTags(d) : d \in 1..Len(devs)}

\* a device that get_cache_info accepts: four attributes, a key, a mask
\* that parsed
WellFormed(d) ==
    /\ {devs[d].attrs[i].name : i \in 1..Len(devs[d].attrs)} =
           {"size", "type", "level", "shared_cpu_map"}
    /\ devs[d].hash_key.ok
    /\ topology_cpumask_parse(
           {}, ctx.cpu_set_t_size,
           topo_device_get_attr_value(devs[d], "shared_cpu_map").s).rc = 0
    /\ devs[d].cpumask # {}

\* C18: from init to free every entity and device object is released
\* exactly once.  While the context exists the allocations of every entity
\* and of every registered device (attribute strings and masks included)
\* are live, so handles and attribute strings stay valid, and nothing else
\* is: a rejected device is released at once, is not on the device list and
\* not in the device table.  topology_free_context releases everything, and
\* nothing is ever freed twice.  The only allocation that is lost is the
\* line getline allocated for an empty attribute file, which belongs to no
\* device.
C18_Lifetime ==
    /\ mem.dfree = {}
    /\ \A t \in mem.lost : t[1] = "attr.value"
    /\ pc \in {"nodes", "cpus", "built"} =>
          /\ mem.live = Owned
          /\ Len(DeviceList(ctx.devices)) = Len(devs)
          /\ {DeviceList(ctx.devices)[i] : i \in 1..Len(devs)}
                = 1..Len(devs)
          /\ \A d \in 1..Len(devs) : WellFormed(d)
          /\ \A d1, d2 \in 1..Len(devs) :
                devs[d1].hash_key = devs[d2].hash_key => d1 = d2
          /\ \A e \in ctx.device_htable.tbl :
                /\ e[2] \in 1..Len(devs)
                /\ devs[e[2]].hash_key.s = e[1]
    /\ pc = "freed" => mem.live = {}

\* both cpus have the same two caches, the second with an empty
\* shared_cpu_map: one device was registered, one duplicate and two
\* malformed devices were rejected, and the context was freed
C18_Witness ==
    /\ pc = "freed"
    /\ mem.failat = 0
    /\ DOMAIN cpufs = {0, 1}
    /\ \A c \in DOMAIN cpufs :
          cpufs[c].cache = (0 :> IndexDir(0, File(<<"3", "\n">>))) @@
                           (1 :> IndexDir(1, File(<<>>)))
    /\ mem.live = {}
    /\ mem.lost = {<<"attr.value", 2, "shared_cpu_map">>}

(***************************************************************************)
(* Cache discovery and the build                                           *)
(***************************************************************************)
\* the entity side of the heap: everything but the devices and their table
EntityGraph(G) ==
    [ents |-> G.ents, list |-> G.ctx.list, system |-> G.ctx.system,
     cpu_set_t_size |-> G.ctx.cpu_set_t_size,
     package_htable |-> G.ctx.package_htable.tbl,
     core_htable |-> G.ctx.core_htable.tbl]

\* the iteration of do_node_cpus that has just read the directory of a cpu
\* ends as it would if the directory had no cache subdirectory: the cpu is
\* skipped, or do_one_cpu fails and with it init, or the same entities are
\* added
CacheStepAgrees ==
    (pc = "cpus" /\ cpufs' # cpufs) =>
        LET c == CHOOSE x \in DOMAIN cpufs' : x \notin DOMAIN cpufs
            plain == [cpufs'[c] EXCEPT !.cache = NoCache]
            on == sysfs_cpu_is_online(Heap, plain)
            r == do_one_cpu(on.G, curNode, c, plain)
        IN  IF on.rc = 0
            THEN pc' = "cpus" /\ ents' = ents
            ELSE IF r.rc # 0 THEN pc' = "failed"
            ELSE /\ pc' = "cpus"
                 /\ EntityGraph([ctx |-> ctx', ents |-> ents',
                                 devs |-> devs', mem |-> mem'])
                        = EntityGraph(r.G)

\* every index directory read so far lacks shared_cpu_map
MapsMissing ==
    \A c \in DOMAIN cpufs : \A k \in DOMAIN cpufs[c].cache :
        ~cpufs[c].cache[k].shared_cpu_map.ok

\* C19: cache discovery never changes the outcome of the build.  Every
\* do_node_cpus iteration succeeds or fails as it would with the cache
\* directory of the cpu removed and leaves the same entities, ids, levels,
\* parents and cpumasks; and when shared_cpu_map is missing in every index
\* directory the built context has no device.
C19_CacheNeverChangesBuild ==
    /\ [][CacheStepAgrees]_vars
    /\ []((pc = "built" /\ MapsMissing) => devs = <<>>)

(***************************************************************************)
(* Concurrent queries                                                      *)
(***************************************************************************)
\* what the call returns when it runs alone on the context
AloneResult(c) ==
    IF c.op = "traverse"
    THEN [c EXCEPT !.ret = traverse(ents, ctx.list, c.from, c.iter, c.to)]
    ELSE IF c.op = "find_device_by_type"
    THEN [c EXCEPT !.ret = find_device_by_type(devs, ctx.devices, c.from,
                                               c.type)]
    ELSE IF c.op = "device_get_attribute"
    THEN [c EXCEPT !.str = topo_device_get_attr_value(devs[c.from], c.name)]
    ELSE IF c.op = "device_cpumask"
    THEN [c EXCEPT !.mask = devs[c.from].cpumask]
    ELSE IF c.op = "procent_cpumask"
    THEN [c EXCEPT !.mask = ents[c.from].cpumask]
    ELSE [c EXCEPT !.ret = topology_sizeof_cpumask]

\* the step of a query leaves the context, the entities, the devices, the
\* tables and the allocations as they are
QueriesReadOnly ==
    (pc = "built" /\ pc' = "built") =>
        <<ctx, ents, devs, mem>>' = <<ctx, ents, devs, mem>>

\* a call that has returned has the result of the call made alone
ResultsAsAlone ==
    \A p \in DOMAIN calls :
        calls[p].done =>
            [calls[p] EXCEPT !.cur = NULL] =
                [AloneResult(calls[p]) EXCEPT !.cur = NULL]

\* C20: between init and free any interleaving of the queries of several
\* callers leaves the context, its entities, devices and tables unchanged,
\* and every call returns what it returns when made alone, whatever turns
\* of other calls come between its own.
C20_ConcurrentQueries ==
    /\ [][QueriesReadOnly]_vars
    /\ []ResultsAsAlone

\* one caller is in the middle of a scan of the entity list while the other
\* has found a device after scanning the device list
C20_Witness ==
    /\ pc = "built"
    /\ calls["a"].op = "traverse"
    /\ ~calls["a"].done
    /\ calls["a"].cur \notin {NULL, ctx.list}
    /\ calls["b"].op = "find_device_by_type"
    /\ calls["b"].done
    /\ calls["b"].from # NULL
    /\ calls["b"].ret # NULL

(***************************************************************************)
(* A second run over the same tree                                         *)
(***************************************************************************)
\* the loop of do_node_cpus of a run to which readdir returns the cpu
\* entries in ascending order; fs holds the cpu directories
RECURSIVE SecondRunCpus(_, _, _, _)
SecondRunCpus(G, node, cpus, fs) ==
    IF cpus = {} THEN [G |-> G, rc |-> 0] ELSE
    Bind(CHOOSE x \in cpus : \A y \in cpus : x <= y, LAMBDA c :
    Bind(sysfs_cpu_is_online(G, fs[c]), LAMBDA on :
    IF on.rc = 0 THEN SecondRunCpus(on.G, node, cpus \ {c}, fs) ELSE
    Bind(do_one_cpu(on.G, node, c, fs[c]), LAMBDA r :
    IF r.rc # 0 \/ r.G.mem.fault THEN [G |-> r.G, rc |-> 1]
    ELSE SecondRunCpus(r.G, node, cpus \ {c}, fs))))

\* the loop of build_context of that run: do_one_node for the node ids in
\* ascending order
RECURSIVE SecondRunNodes(_, _, _, _)
SecondRunNodes(G, l, nodes, fs) ==
    IF nodes = {} THEN [G |-> G, rc |-> 0] ELSE
    Bind(CHOOSE x \in nodes : \A y \in nodes : x <= y, LAMBDA nid :
    Bind(alloc_init_topo_procent(G, G.ctx.system, nid), LAMBDA node :
    IF node.ent = NULL THEN [G |-> node.G, rc |-> 1] ELSE
    Bind(SecondRunCpus(node.G, node.ent, NodeCpus(l, nid), fs), LAMBDA r :
    IF r.rc # 0 THEN r
    ELSE SecondRunNodes(r.G, l, nodes \ {nid}, fs))))

\* topology_init_context on a fresh handle over the tree l, fs
SecondRun(l, fs) ==
    Bind(new_context([NoHeap EXCEPT !.mem.failat = l.failat], l), LAMBDA c :
    IF ~c.ok THEN [G |-> c.G, rc |-> 1]
    ELSE SecondRunNodes(c.G, l,
                        IF l.numa = -1 THEN {0} ELSE 0..(l.numa - 1), fs))

\* (level, id, cpumask) of an entity
EntSig(G, e) == <<G.ents[e].level, G.ents[e].id, G.ents[e].cpumask>>

\* the graph of a context up to handles: the entities with the entity each
\* hangs under, and the device signatures
GraphOf(G) ==
    [entities |-> {<<EntSig(G, e),
                     IF G.ents[e].parent = NULL THEN <<>>
                     ELSE EntSig(G, G.ents[e].parent)>> :
                       e \in 1..Len(G.ents)},
     devices |-> {G.devs[d].hash_key : d \in 1..Len(G.devs)}]

\* C21: two successful runs of init over the same unchanged sysfs tree
\* give equivalent graphs, whatever order the directory entries are
\* returned in: the graph of a built context equals the graph of a run
\* over the same tree that is given the entries in ascending order.
C21_RebuildEquivalent ==
    pc = "built" =>
        LET second == SecondRun(layout, cpufs)
        IN  second.rc = 0 /\ GraphOf(second.G) = GraphOf(Heap)

(***************************************************************************)
(* Cache directories one by one                                            *)
(***************************************************************************)
\* C22: the index directories of a thread are handled independently.  In a
\* built context every index{k} directory of an online cpu that has all
\* four attributes and a parsable shared_cpu_map containing the cpu is
\* represented by a registered device with its (level, type,
\* shared_cpu_map), whatever the other index directories of the cpu look
\* like and also after a gap in the numbering.
C22_IndexesIndependent ==
    pc = "built" =>
        \A ck \in CacheDirsInSysfs :
            LET sd == SysfsDevice(ck[1], ck[2])
            IN  sd.ok =>
                    \E d \in DevIds :
                        TripleOf(devs[d]) =
                            <<sd.level, sd.type, sd.shared_cpu_map>>

C24_FallbackSignatureIsId ==
    HasContext =>
        \A c \in OnlineCpus : \A t \in ThreadsOf(c) :
            /\ ~cpufs[c].core_siblings.ok =>
                   /\ ents[AncestorAt(t, TOPOLOGY_PACKAGE)].hash_key
                          = Str(DecStr(c))
                   /\ \A c2 \in OnlineCpus \ {c} : \A t2 \in ThreadsOf(c2) :
                          ~cpufs[c2].core_siblings.ok =>
                              AncestorAt(t, TOPOLOGY_PACKAGE)
                                  # AncestorAt(t2, TOPOLOGY_PACKAGE)
            /\ ~cpufs[c].thread_siblings.ok =>
                   ents[AncestorAt(t, TOPOLOGY_CORE)].hash_key
                       = Str(DecStr(c))


C24_FallbackSignature ==
    HasContext =>
        \A c \in OnlineCpus : \A t \in ThreadsOf(c) :
            /\ ~cpufs[c].core_siblings.ok =>
                   /\ \E p \in EntsAt(TOPOLOGY_PACKAGE) :
                          ents[p].hash_key =
                              IF cpufs[c].thread_siblings.ok
                              THEN Str(cpufs[c].thread_siblings.s)
                              ELSE Str(DecStr(c))
                   /\ \A c2 \in OnlineCpus \ {c} : \A t2 \in ThreadsOf(c2) :
                          ( /\ ~cpufs[c2].core_siblings.ok
                            /\ cpufs[c].thread_siblings.ok
                            /\ cpufs[c2].thread_siblings
                                   = cpufs[c].thread_siblings ) =>
                              AncestorAt(t, TOPOLOGY_PACKAGE)
                                  = AncestorAt(t2, TOPOLOGY_PACKAGE)
            /\ ~cpufs[c].thread_siblings.ok =>
                   ents[AncestorAt(t, TOPOLOGY_CORE)].hash_key
                       = Str(DecStr(c))

\* two cpus without core_siblings and with the same thread_siblings text
\* in one package, next to a cpu with neither file in a package of its own
C24_Witness ==
    /\ pc = "built"
    /\ \E c1, c2, c3 \in OnlineCpus :
           /\ c1 # c2
           /\ ~cpufs[c1].core_siblings.ok /\ ~cpufs[c2].core_siblings.ok
           /\ cpufs[c1].thread_siblings.ok
           /\ cpufs[c1].thread_siblings = cpufs[c2].thread_siblings
           /\ cpufs[c3] = PlainDir
    /\ Cardinality(EntsAt(TOPOLOGY_PACKAGE)) = 2

(***************************************************************************)
(* Order of enumeration                                                    *)
(***************************************************************************)
\* C25 as claimed: traverse enumerates oldest first.  The direct children
\* of an entity are returned in the order in which they were created, and
\* descendants further down in the order in which they were put on the
\* global list; the arena index of an entity is its creation number.
C25_TraverseOldestFirst ==
    pc = "built" =>
        \A from \in EntIds : \A L \in 1..(ents[from].level - 1) :
            LET found == TraverseAll(from, NULL, L, Len(ents))
            IN  \A i, j \in 1..Len(found) : i < j => found[i] < found[j]

\* C25, amended: traverse enumerates newest first.  The direct children of
\* an entity are returned in the reverse of the order in which they were
\* created under it, and descendants more than one level down in the
\* reverse of the order in which they were put on the global list (last
\* created, first returned).
C25_TraverseNewestFirst ==
    pc = "built" =>
        \A from \in EntIds : \A L \in 1..(ents[from].level - 1) :
            LET found == TraverseAll(from, NULL, L, Len(ents))
            IN  \A i, j \in 1..Len(found) : i < j => found[i] > found[j]

\* an entity with two direct children and an entity with two descendants
\* two levels down
C25_Witness ==
    /\ pc = "built"
    /\ \E from \in EntIds :
           /\ ents[from].level > TOPOLOGY_THREAD
           /\ Len(TraverseAll(from, NULL, ents[from].level - 1,
                              Len(ents))) >= 2
    /\ \E from \in EntIds :
           /\ ents[from].level > TOPOLOGY_CORE
           /\ Len(TraverseAll(from, NULL, ents[from].level - 2,
                              Len(ents))) >= 2

(***************************************************************************)
(* Offline cpus                                                            *)
(***************************************************************************)
\* the cpu entries read so far whose online file exists and reads as 0
ReadAsOffline ==
    {c \in DOMAIN cpufs :
        /\ cpufs[c].online.ok
        /\ cpufs[c].online.s # <<>>
        /\ IsDigit(Head(cpufs[c].online.s))
        /\ DecPrefix(cpufs[c].online.s, 0) = 0}

\* C26: exactly one THREAD entity is created per enumerated cpu entry
\* whose online file is absent or does not read as 0, and none for a cpu
\* whose online file reads 0; the bit of an offline cpu is set in no
\* entity cpumask.  When every cpu is offline init still succeeds, and in
\* the built context each NODE entity has no children and an empty
\* cpumask.
C26_ThreadPerOnlineCpu ==
    /\ HasContext =>
           \A c \in DOMAIN cpufs :
               IF c \in ReadAsOffline
               THEN /\ ThreadsOf(c) = {}
                    /\ \A e \in EntIds : c \notin ents[e].cpumask
               ELSE Cardinality(ThreadsOf(c)) = 1
    /\ (cpufs # <<>> /\ DOMAIN cpufs = ReadAsOffline) => pc # "failed"
    /\ (pc = "built" /\ DOMAIN cpufs = ReadAsOffline) =>
           /\ EntsAt(TOPOLOGY_NODE) # {}
           /\ EntsAt(TOPOLOGY_THREAD) = {}
           /\ \A n \in EntsAt(TOPOLOGY_NODE) :
                  ents[n].children = NULL /\ ents[n].cpumask = {}

\* a built context over a cpu whose online file holds no number, which
\* has its thread, and a cpu whose online file reads 0, which has none
C26_Witness ==
    /\ pc = "built"
    /\ Cardinality(DOMAIN cpufs) = 2
    /\ Cardinality(ReadAsOffline) = 1
    /\ \E c \in ReadAsOffline : cpufs[c].online = File(<<"0", "0", "\n">>)
    /\ \E c \in DOMAIN cpufs :
           /\ cpufs[c].online = File(<<"x", "\n">>)
           /\ ThreadsOf(c) # {}

(***************************************************************************)
(* Trees without node directories                                          *)
(***************************************************************************)
\* C27: without devices/system/node the build creates exactly one NODE
\* entity, with id 0 and under SYSTEM, and fills it from the cpu entries
\* of devices/system/cpu: init fails only when the cpumask size cannot
\* be probed or an allocation fails, and every cpu entry that is not
\* offline has its thread below that node.  When cpu 0 is the only cpu
\* that is not offline there are exactly one node, one package, one core
\* and one thread, each with id 0 and only bit 0 set.  When
\* devices/system/cpu is missing too, init fails: no cpu is ever read and
\* no context is handed out.
C27_SingleFakeNode ==
    layout.numa = -1 =>
        /\ (layout.cpudir /\ pc = "failed") =>
               \/ AllocationFailed
               \/ probe_cpumask_size(NoHeap, layout.cpudir, Cpus(layout),
                                     layout.override, layout.kmask).size = 0
        /\ pc \in {"cpus", "built"} =>
               /\ Cardinality(EntsAt(TOPOLOGY_NODE)) = 1
               /\ \A n \in EntsAt(TOPOLOGY_NODE) :
                      ents[n].id = 0 /\ ents[n].parent = ctx.system
        /\ pc = "built" =>
               /\ {ents[t].id : t \in EntsAt(TOPOLOGY_THREAD)}
                      = Cpus(layout) \ ReadAsOffline
               /\ \A t \in EntsAt(TOPOLOGY_THREAD) :
                      AncestorAt(t, TOPOLOGY_NODE) \in EntsAt(TOPOLOGY_NODE)
               /\ Cpus(layout) \ ReadAsOffline = {0} =>
                      /\ \A L \in TOPOLOGY_THREAD..TOPOLOGY_NODE :
                             Cardinality(EntsAt(L)) = 1
                      /\ \A e \in EntIds :
                             ents[e].id = 0 /\ ents[e].cpumask = {0}
        /\ ~layout.cpudir => pc \in {"init", "nodes", "failed"}

\* the built context of a tree without node directories in which cpu 0,
\* with both sibling files, is the only cpu that is not offline
C27_Witness ==
    /\ layout.numa = -1
    /\ pc = "built"
    /\ Cpus(layout) \ ReadAsOffline = {0}
    /\ cpufs[0].core_siblings.ok /\ cpufs[0].thread_siblings.ok
    /\ Cardinality(EntsAt(TOPOLOGY_THREAD)) = 1

(***************************************************************************)
(* The device hash table                                                   *)
(***************************************************************************)
\* C28: after any number of cache registrations the device hash table has
\* capacity 2 * 2^k for some k >= 0, its entry count equals the number of
\* devices on the device list and does not exceed the capacity, a lookup
\* of the signature of every registered device returns that device, also
\* right after the table was doubled, and the assert count < maxsize of
\* htable_insert has not failed.
C28_DeviceTable ==
    /\ pc # "crashed"
    /\ HasContext =>
           LET h == ctx.device_htable
               list == DeviceList(ctx.devices)
           IN  /\ \E k \in 0..Len(devs) : h.maxsize = 2 * (2 ^ k)
               /\ h.count = Len(list)
               /\ h.count <= h.maxsize
               /\ ~h.asserted
               /\ \A i \in 1..Len(list) :
                      htable_lookup(h, devs[list[i]].hash_key.s) = list[i]

\* three registered devices: the table was full when the third one came
\* and has been doubled
C28_Witness ==
    /\ HasContext
    /\ Len(devs) >= 3
    /\ ctx.device_htable.maxsize = 2 * DEVICE_HTABLE_INIT
    /\ ctx.device_htable.count = Len(devs)

(***************************************************************************)
(* The per-build tables                                                    *)
(***************************************************************************)
BuildTables == {"package_htable", "core_htable"}

\* the table exists: its hsearch storage is allocated
TableExists(name) == <<"htable", name>> \in mem.live

\* C29: the package and core tables have capacity 8 * W while the build
\* runs, are never resized, and are released by the time
\* topology_init_context returns, on success as well as on failure: none
\* exists while the caller runs queries.
C29_BuildTablesReleased ==
    \A name \in BuildTables :
        /\ (HasContext /\ pc # "built") =>
               /\ TableExists(name)
               /\ ctx[name].maxsize = 8 * ctx.cpu_set_t_size
        /\ pc \in {"built", "failed", "freed"} =>
               /\ ~TableExists(name)
               /\ ctx[name] = NoHtable

(***************************************************************************)
(* Packages and cores of a built context                                   *)
(***************************************************************************)
\* C30: in a built context every PACKAGE and every CORE has at least one
\* THREAD below it and a cpumask that is not empty.
C30_NoChildlessPackageOrCore ==
    pc = "built" =>
        \A e \in EntsAt(TOPOLOGY_PACKAGE) \cup EntsAt(TOPOLOGY_CORE) :
            /\ DescendantsAt(e, TOPOLOGY_THREAD) # {}
            /\ ents[e].cpumask # {}

====
